---- MODULE Spec2Model ----
(***************************************************************************)
(* A model of the article pipeline of Trading-AI:                          *)
(*   - ArticlePipelineController.fetch_latest_news_articles  (SpecFetch)   *)
(*   - ArticleService.insert_many_articles / insert_one_article (SpecStore)*)
(*   - GeminiService.to_article_fields / summarize_article and             *)
(*     ArticlePipelineController._process_one                (SpecMerge)   *)
(*   - ArticlePipelineController.backfill_articles           (SpecBackfill,*)
(*     SpecBackfillFair, SpecGrowing)                                      *)
(*   - concurrent callers of insert_many_articles            (SpecWriters) *)
(*   - ArticleService.get_articles_batch                     (SpecBatch)   *)
(*   - ArticlePipelineController.run and the trigger                       *)
(*     run_article_fetch_pipeline                            (SpecRun)     *)
(* Each specification drives its own group of variables and leaves the     *)
(* other groups at their idle values.                                      *)
(***************************************************************************)
EXTENDS Integers, Sequences, FiniteSets, TLC

VARIABLES
    \* fetch_latest_news_articles
    asynchronous,     \* self.asynchronous
    fpc,              \* position of the call: "idle", "running", "returned", "raised"
    scraped,          \* per active scraper: Pending, or the outcome of its scrape()
    seqIdx,           \* sequential mode: index of the next scraper of the for loop
    articles,         \* the local list `articles`
    fetchResult,      \* the returned list (sorted_articles)
    \* ArticleService
    store,            \* db.articles: the documents in _id (insertion) order
    clock,            \* datetime.now(): one tick per service call
    last,             \* the last service call: operation, arguments, outcome, store before
    sameAsPrev,       \* the last two calls were insert_many_articles of one batch
    \* _process_one
    mpc,              \* position of the call: "idle", "start", "done", "raised"
    mArticle,         \* the argument `article`
    mOutcome,         \* what summarize_article's LLM request did
    mFields,          \* llm_fields
    mResult,          \* the returned value: None, or the updated Article
    \* backfill_articles
    bpc,              \* "idle", "loop" (line 127), "pool" (145-163), "upsert" (165), "returned", "raised"
    batch_size,       \* the parameters of the call
    max_workers,
    limit_total,
    last_id,          \* the cursor
    processed_total,
    updated_total,
    failed_total,
    page,             \* `batch`, the page read last
    task,             \* per article of the page: "queued", "running", or how its call ended
    updated_batch,
    reads,            \* calls of get_articles_batch so far
    pageBase,         \* the three counters as they were when the page was read
    per_call_timeout, \* the parameter: None, or the timeout in seconds
    late,             \* the tasks of the page whose call ran longer than per_call_timeout
    submitted,        \* the urls of the articles submitted to the pool, in order
    calls,            \* per article of the page: calls of summarize_article made for it
    upsert_calls,     \* the batches passed to upsert_many_articles for the page, in order
    \* run_article_fetch_pipeline and run
    tpc,              \* the trigger: "idle", "running", "returned", "raised"
    response,         \* what the trigger returned last: None, or (text, code)
    runs,             \* invocations of the trigger so far
    rpc,              \* run(): "idle", "init", "fetching", "persisting", "finalizing",
                      \* "done" (returned), "raised"
    pipeline_run_id,  \* the locals of run()
    articles_fetched,
    insert_result,
    exc,              \* the exception that left run(): None, or its message
    executions,       \* the pipeline executions collection, in insertion order
    prev,             \* the run before this one, when it returned: what it fetched
                      \* and the article store as it left it
    scrape_metadata,  \* per active scraper: s.scrape_metadata, what its scrape of this
                      \* run left on it
    \* concurrent callers of insert_many_articles
    writers,          \* per writer: its batch, the operations of its bulk write, how
                      \* many of them the server has applied, the urls it upserted,
                      \* and what the call returned
    \* get_articles_batch
    gLimit,           \* the arguments of the last call: limit, last_id
    gLastId,
    gResult,          \* what the last call returned: None before the first call
    gCalls            \* calls made so far

fetchVars == <<asynchronous, fpc, scraped, seqIdx, articles, fetchResult>>
storeVars == <<store, clock, last, sameAsPrev>>
mergeVars == <<mpc, mArticle, mOutcome, mFields, mResult>>
backfillVars == <<bpc, batch_size, max_workers, limit_total, last_id, processed_total,
                  updated_total, failed_total, page, task, updated_batch, reads, pageBase,
                  per_call_timeout, late, submitted, calls, upsert_calls>>
runVars == <<tpc, response, runs, rpc, pipeline_run_id, articles_fetched, insert_result,
             exc, executions, prev, scrape_metadata>>
writerVars == <<writers>>
batchVars == <<gLimit, gLastId, gResult, gCalls>>
vars == <<fetchVars, storeVars, mergeVars, backfillVars, runVars, writerVars, batchVars>>
notFetch == <<storeVars, mergeVars, backfillVars, runVars, writerVars, batchVars>>
notStore == <<fetchVars, mergeVars, backfillVars, runVars, writerVars, batchVars>>
notMerge == <<fetchVars, storeVars, backfillVars, runVars, writerVars, batchVars>>
notBackfill == <<fetchVars, mergeVars, clock, last, sameAsPrev, runVars, writerVars, batchVars>>
notRun == <<mergeVars, backfillVars, writerVars, batchVars>>
notWriters == <<fetchVars, clock, last, sameAsPrev, mergeVars, backfillVars, runVars, batchVars>>
notBatch == <<fetchVars, storeVars, mergeVars, backfillVars, runVars, writerVars>>

(***************************************************************************)
(* Optional values: None is the empty tuple, a present value v is <<v>>.   *)
(***************************************************************************)
None == <<>>
Some(v) == <<v>>

(***************************************************************************)
(* models.Article.  url, title and content are required strings; every     *)
(* other field is Optional with default None.  Of the enrichment fields    *)
(* the model keeps source, sentiment and ticker_sentiments (one plain      *)
(* field the scrapers also set, one plain LLM field, one converted field). *)
(***************************************************************************)
RequiredFields == {"url", "title", "content"}
OptionalFields == {"publish_date", "summary", "source", "sentiment", "ticker_sentiments"}
ArticleFields == RequiredFields \cup OptionalFields

\* Article(url=..., title=..., content=..., publish_date=...) as a scraper builds it
NewArticle(url, title, date) ==
    [url |-> url, title |-> title, content |-> "body", publish_date |-> date,
     summary |-> None, source |-> None, sentiment |-> None, ticker_sentiments |-> None]

(***************************************************************************)
(* publish_date is Optional[str]; Python orders strings lexicographically. *)
(* DateStrings lists the modelled date strings in increasing string order, *)
(* the empty string first (it is the least string).                        *)
(***************************************************************************)
DateStrings == <<"", "2025-11-06 00:48:15+00:00", "2025-11-07 00:53:38+00:00">>

StrRank(s) == CHOOSE i \in 1..Len(DateStrings) : DateStrings[i] = s

\* key=lambda article: article.publish_date or ""
SortKey(a) == IF a.publish_date = None \/ a.publish_date = Some("")
              THEN StrRank("")
              ELSE StrRank(a.publish_date[1])

RECURSIVE InsertDesc(_, _)
\* stable insertion of a into a list sorted descending by SortKey: a goes after
\* every element whose key is >= its own (Python's sort keeps ties in input order,
\* also with reverse=True)
InsertDesc(a, sorted) ==
    IF sorted = <<>> THEN <<a>>
    ELSE IF SortKey(Head(sorted)) >= SortKey(a)
         THEN <<Head(sorted)>> \o InsertDesc(a, Tail(sorted))
         ELSE <<a>> \o sorted

\* the list left in arrival order (no sort)
Unsorted(list) == list

RECURSIVE SortedDesc(_)
\* sorted(articles, key=..., reverse=True)
SortedDesc(list) ==
    IF list = <<>> THEN <<>>
    ELSE InsertDesc(list[Len(list)], SortedDesc(SubSeq(list, 1, Len(list) - 1)))

(***************************************************************************)
(* fetch_latest_news_articles                                              *)
(***************************************************************************)
NumScrapers == 2
MaxScrape == 2

Scrapers == 1..NumScrapers

FetchArticles ==
    { NewArticle("u1", "t1", None),
      NewArticle("u2", "t1", Some("")),
      NewArticle("u1", "t2", Some(DateStrings[2])),
      NewArticle("u3", "t1", Some(DateStrings[3])) }

SeqsUpTo(S, n) == UNION { [1..k -> S] : k \in 0..n }

Pending == [kind |-> "pending", arts |-> <<>>]

\* what one scrape() call can do: raise, return None, or return a list of Articles
ScrapeOutcomes ==
    { [kind |-> "raise", arts |-> <<>>], [kind |-> "none", arts |-> <<>>] }
    \cup { [kind |-> "ok", arts |-> s] : s \in SeqsUpTo(FetchArticles, MaxScrape) }

NoCall == [op |-> "none", batch |-> <<>>, run_id |-> None, status |-> "none",
           result |-> <<>>, before |-> <<>>]

IdleFetch ==
    /\ asynchronous = FALSE
    /\ fpc = "idle"
    /\ scraped = <<>>
    /\ seqIdx = 0
    /\ articles = <<>>
    /\ fetchResult = None

IdleStore ==
    /\ store = <<>>
    /\ clock = 0
    /\ last = NoCall
    /\ sameAsPrev = FALSE

IdleMerge ==
    /\ mpc = "idle"
    /\ mArticle = None
    /\ mOutcome = None
    /\ mFields = None
    /\ mResult = None

Counters(p, u, f) == [processed |-> p, updated |-> u, failed |-> f]

IdleBackfill ==
    /\ bpc = "idle"
    /\ batch_size = 0
    /\ max_workers = 0
    /\ limit_total = None
    /\ last_id = None
    /\ processed_total = 0
    /\ updated_total = 0
    /\ failed_total = 0
    /\ page = <<>>
    /\ task = <<>>
    /\ updated_batch = <<>>
    /\ reads = 0
    /\ pageBase = Counters(0, 0, 0)
    /\ per_call_timeout = None
    /\ late = {}
    /\ submitted = <<>>
    /\ calls = <<>>
    /\ upsert_calls = <<>>

IdleWriters == writers = <<>>

IdleBatch ==
    /\ gLimit = 0
    /\ gLastId = None
    /\ gResult = None
    /\ gCalls = 0

IdleRun ==
    /\ tpc = "idle"
    /\ response = None
    /\ runs = 0
    /\ rpc = "idle"
    /\ pipeline_run_id = None
    /\ articles_fetched = None
    /\ insert_result = None
    /\ exc = None
    /\ executions = <<>>
    /\ prev = None
    /\ scrape_metadata = <<>>

InitFetch ==
    /\ IdleWriters
    /\ IdleBatch
    /\ IdleStore
    /\ IdleMerge
    /\ IdleBackfill
    /\ IdleRun
    /\ asynchronous \in BOOLEAN
    /\ fpc = "running"
    /\ scraped = [i \in Scrapers |-> Pending]
    /\ seqIdx = 1
    /\ articles = <<>>
    /\ fetchResult = None

\* sequential mode, one iteration of `for s in self.active_scrapers:
\* articles.extend(s.scrape())`: no try/except, so an exception of scrape(), or the
\* TypeError of extend(None), leaves the function
SeqScrape(o) ==
    /\ fpc = "running"
    /\ ~asynchronous
    /\ seqIdx <= NumScrapers
    /\ scraped' = [scraped EXCEPT ![seqIdx] = o]
    /\ IF o.kind = "ok"
       THEN /\ articles' = articles \o o.arts
            /\ seqIdx' = seqIdx + 1
            /\ fpc' = fpc
       ELSE /\ fpc' = "raised"
            /\ UNCHANGED <<articles, seqIdx>>
    /\ UNCHANGED <<asynchronous, fetchResult>>
    /\ UNCHANGED notFetch

\* AsyncComplete without the try/except around fut.result()
AsyncCompleteNoCatch(i, o) ==
    /\ fpc = "running"
    /\ asynchronous
    /\ scraped[i] = Pending
    /\ scraped' = [scraped EXCEPT ![i] = o]
    /\ IF o.kind = "ok"
       THEN /\ articles' = articles \o o.arts
            /\ fpc' = fpc
       ELSE /\ fpc' = "raised"
            /\ articles' = articles
    /\ UNCHANGED <<asynchronous, seqIdx, fetchResult>>
    /\ UNCHANGED notFetch

RECURSIVE DedupExtend(_, _)
\* list extended by the articles of arts whose url it does not hold yet
DedupExtend(list, arts) ==
    IF arts = <<>> THEN list
    ELSE IF \E i \in DOMAIN list : list[i].url = Head(arts).url
         THEN DedupExtend(list, Tail(arts))
         ELSE DedupExtend(Append(list, Head(arts)), Tail(arts))

\* AsyncComplete with a fetch that keeps one article per url
AsyncCompleteDedup(i, o) ==
    /\ fpc = "running"
    /\ asynchronous
    /\ scraped[i] = Pending
    /\ scraped' = [scraped EXCEPT ![i] = o]
    /\ articles' = IF o.kind = "ok" /\ o.arts # <<>> THEN DedupExtend(articles, o.arts)
                   ELSE articles
    /\ UNCHANGED <<asynchronous, fpc, seqIdx, fetchResult>>
    /\ UNCHANGED notFetch

\* concurrent mode: the future of scraper i completes and the as_completed loop
\* handles it (the loop body runs once per future, in completion order); the
\* try/except logs a failed future and goes on
AsyncComplete(i, o) ==
    /\ fpc = "running"
    /\ asynchronous
    /\ scraped[i] = Pending
    /\ scraped' = [scraped EXCEPT ![i] = o]
    /\ articles' = IF o.kind = "ok" /\ o.arts # <<>> THEN articles \o o.arts ELSE articles
    /\ UNCHANGED <<asynchronous, fpc, seqIdx, fetchResult>>
    /\ UNCHANGED notFetch

AllSettled == IF asynchronous THEN \A i \in Scrapers : scraped[i] # Pending
              ELSE seqIdx > NumScrapers

\* FetchReturn without the wait for the pool: the list is sorted and returned
\* while futures are still pending
FetchReturnEarly ==
    /\ fpc = "running"
    /\ asynchronous \/ AllSettled
    /\ fetchResult' = Some(SortedDesc(articles))
    /\ fpc' = "returned"
    /\ UNCHANGED <<asynchronous, scraped, seqIdx, articles>>
    /\ UNCHANGED notFetch

\* lines 80-81: sort and return, after the for loop / the with block
FetchReturn ==
    /\ fpc = "running"
    /\ AllSettled
    /\ fetchResult' = Some(SortedDesc(articles))
    /\ fpc' = "returned"
    /\ UNCHANGED <<asynchronous, scraped, seqIdx, articles>>
    /\ UNCHANGED notFetch

NextFetch ==
    \/ \E o \in ScrapeOutcomes : SeqScrape(o)
    \/ \E i \in Scrapers, o \in ScrapeOutcomes : AsyncComplete(i, o)
    \/ FetchReturn

SpecFetch == InitFetch /\ [][NextFetch]_vars

(***************************************************************************)
(* Properties of fetch_latest_news_articles                                *)
(***************************************************************************)
Count(seq, a) == Cardinality({ i \in DOMAIN seq : seq[i] = a })

RECURSIVE SuccessCount(_, _)
\* occurrences of article a in the lists returned by scrapers 1..n that succeeded
SuccessCount(a, n) ==
    IF n = 0 THEN 0
    ELSE (IF scraped[n].kind = "ok" THEN Count(scraped[n].arts, a) ELSE 0)
         + SuccessCount(a, n - 1)

IsUnionOfSuccesses(res) ==
    /\ \A i \in DOMAIN res : res[i] \in FetchArticles
    /\ \A a \in FetchArticles : Count(res, a) = SuccessCount(a, NumScrapers)

Failed(i) == scraped[i].kind = "raise"
Succeeded(i) == scraped[i].kind = "ok"

\* C1: in concurrent mode the fetch never raises, it returns only once every
\* scraper has settled, and what it returns is, as a multiset, the union of the
\* lists of the scrapers that did not raise, whichever scrapers raised and in
\* whatever order they completed.
C1_AsyncPartialFailure ==
    asynchronous =>
        /\ fpc # "raised"
        /\ fpc = "returned" =>
              /\ \A i \in Scrapers : scraped[i] # Pending
              /\ IsUnionOfSuccesses(fetchResult[1])

C1_Witness ==
    /\ asynchronous
    /\ fpc = "returned"
    /\ \E i, j \in Scrapers : Failed(i) /\ Succeeded(j) /\ Len(scraped[j].arts) = 2
    /\ Len(fetchResult[1]) = 2

\* C2 (as claimed): in sequential mode a scraper that raises does not stop the
\* fetch: the call does not raise, and when it is over every scraper has been
\* invoked and the result is the union of the lists of those that did not raise.
C2_SequentialTolerates ==
    (~asynchronous /\ \A i \in Scrapers : scraped[i].kind # "none") =>
        /\ fpc # "raised"
        /\ fpc = "returned" =>
              /\ \A i \in Scrapers : scraped[i] # Pending
              /\ IsUnionOfSuccesses(fetchResult[1])

PresentDate(a) == a.publish_date # None /\ a.publish_date # Some("")

\* C3: the returned list is in descending publish_date order, and every article
\* without a publish_date (None or the empty string) comes after all articles
\* that have one, in both modes.
C3_SortedDescMissingLast ==
    fpc = "returned" =>
        LET res == fetchResult[1] IN
        \A i, j \in DOMAIN res :
            /\ (i < j /\ PresentDate(res[i]) /\ PresentDate(res[j]))
                  => StrRank(res[i].publish_date[1]) >= StrRank(res[j].publish_date[1])
            /\ (~PresentDate(res[i]) /\ PresentDate(res[j])) => j < i

C3_Witness ==
    /\ fpc = "returned"
    /\ Len(fetchResult[1]) = 4
    /\ fetchResult[1] # articles
    /\ \E i, j, k \in DOMAIN articles :
          /\ i < j /\ j < k
          /\ ~PresentDate(articles[i])
          /\ PresentDate(articles[j]) /\ PresentDate(articles[k])
          /\ StrRank(articles[j].publish_date[1]) < StrRank(articles[k].publish_date[1])

(***************************************************************************)
(* ArticleService: db.articles with the unique index on url                *)
(***************************************************************************)
MaxBatch == 2
MaxCalls == 2

\* article.model_dump(exclude_none=True): the required fields and the optional
\* fields that are set, as a document (field name -> plain value)
ModelDumpExcludeNone(a) ==
    [f \in RequiredFields \cup { g \in OptionalFields : a[g] # None } |->
        IF f \in RequiredFields THEN a[f] ELSE a[f][1]]

\* Article(**doc): the fields of the model are read from the document, a field the
\* document lacks gets its default None, and keys that are no field of Article
\* (_id, created_at, pipeline_run_id) are dropped
ToArticle(doc) ==
    [f \in ArticleFields |->
        IF f \in RequiredFields THEN doc[f]
        ELSE IF f \in DOMAIN doc THEN Some(doc[f]) ELSE None]

\* the indexes of the documents matching the filter {"url": url}
Matching(st, url) == { i \in DOMAIN st : st[i].url = url }

\* an upsert that inserts without looking for a matching document
InsertAlways(st, url, doc) ==
    [st |-> Append(st, ("_id" :> Len(st) + 1) @@ doc), upserted_id |-> Some(Len(st) + 1)]

\* an upsert with $set instead of $setOnInsert: a matching document is overwritten
UpsertSet(st, url, doc) ==
    IF Matching(st, url) # {}
    THEN [st |-> [i \in DOMAIN st |->
                    IF i \in Matching(st, url) THEN doc @@ st[i] ELSE st[i]],
          upserted_id |-> None]
    ELSE [st |-> Append(st, ("_id" :> Len(st) + 1) @@ doc), upserted_id |-> Some(Len(st) + 1)]

\* a replace_one upsert: a matching document is replaced by doc under its _id
ReplaceOnMatch(st, url, doc) ==
    IF Matching(st, url) # {}
    THEN [st |-> [i \in DOMAIN st |->
                    IF i \in Matching(st, url) THEN ("_id" :> st[i]["_id"]) @@ doc
                    ELSE st[i]],
          upserted_id |-> None]
    ELSE [st |-> Append(st, ("_id" :> Len(st) + 1) @@ doc), upserted_id |-> Some(Len(st) + 1)]

\* UpdateOne({"url": url}, {"$setOnInsert": doc}, upsert=True) on the collection:
\* a matching document is left as it is; without one, doc is inserted under a
\* fresh _id (ObjectIds grow with insertion), which is reported as upserted
UpdateOneSetOnInsert(st, url, doc) ==
    IF Matching(st, url) # {}
    THEN [st |-> st, upserted_id |-> None]
    ELSE [st |-> Append(st, ("_id" :> Len(st) + 1) @@ doc), upserted_id |-> Some(Len(st) + 1)]

RECURSIVE BulkWrite(_, _, _)
\* collection.bulk_write(operations), ordered: the operations k..Len(ops) applied
\* in order; upserted_ids maps the index of an operation that inserted to the _id
BulkWrite(st, ops, k) ==
    IF k > Len(ops) THEN [st |-> st, upserted_ids |-> {}]
    ELSE LET one == UpdateOneSetOnInsert(st, ops[k].url, ops[k])
             rest == BulkWrite(one.st, ops, k + 1)
         IN [st |-> rest.st,
             upserted_ids |-> rest.upserted_ids \cup
                 (IF one.upserted_id = None THEN {} ELSE { <<k, one.upserted_id[1]>> })]

RECURSIVE BatchDocsLastWins(_, _, _, _)
\* BatchDocs without the test of lines 144-145: every article is assigned to
\* articles_batch[url], so a url keeps the place of its first occurrence in the
\* dict and the document of its last one
BatchDocsLastWins(arts, now, run_id, seen) ==
    IF arts = <<>> THEN <<>>
    ELSE IF Head(arts).url \in seen
         THEN BatchDocsLastWins(Tail(arts), now, run_id, seen)
         ELSE LET same == { k \in DOMAIN arts : arts[k].url = Head(arts).url }
                  final == CHOOSE k \in same : \A j \in same : j <= k
                  doc == ModelDumpExcludeNone(arts[final]) @@ ("created_at" :> now)
                  full == IF run_id # None
                          THEN doc @@ ("pipeline_run_id" :> run_id[1])
                          ELSE doc
              IN <<full>> \o BatchDocsLastWins(Tail(arts), now, run_id,
                                               seen \cup {Head(arts).url})

RECURSIVE BatchDocs(_, _, _, _)
\* lines 141-152: the documents of the batch in first-occurrence order of their url
\* (articles_batch is a dict keyed by url; a later article of a url already in it
\* is skipped), each with created_at and, when given, pipeline_run_id
BatchDocs(arts, now, run_id, seen) ==
    IF arts = <<>> THEN <<>>
    ELSE IF Head(arts).url \in seen
         THEN BatchDocs(Tail(arts), now, run_id, seen)
         ELSE LET doc == ModelDumpExcludeNone(Head(arts)) @@ ("created_at" :> now)
                  full == IF run_id # None
                          THEN doc @@ ("pipeline_run_id" :> run_id[1])
                          ELSE doc
              IN <<full>> \o BatchDocs(Tail(arts), now, run_id, seen \cup {Head(arts).url})

StoreArticles ==
    { NewArticle("u1", "t1", None),
      NewArticle("u1", "t2", Some(DateStrings[2])),
      [NewArticle("u2", "t1", None) EXCEPT !.source = Some("Yahoo")] }

RunIds(c) == { None, Some(c) }

InitStore ==
    /\ IdleWriters
    /\ IdleBatch
    /\ IdleFetch
    /\ IdleMerge
    /\ IdleBackfill
    /\ IdleRun
    /\ store = <<>>
    /\ clock = 1
    /\ last = NoCall
    /\ sameAsPrev = FALSE

\* insert_many_articles(articles, pipeline_run_id).  failAt = Len(operations): the
\* bulk write succeeds; failAt < Len(operations): the server fails after failAt
\* operations and bulk_write raises, which line 162 re-raises.  An empty list of
\* operations is refused by bulk_write (InvalidOperation), re-raised the same way.
InsertManyCall(batch, run_id, failAt) ==
    \E ops \in { BatchDocs(batch, clock, run_id, {}) } :
    \E written \in { BulkWrite(store, SubSeq(ops, 1, IF failAt <= Len(ops) THEN failAt ELSE 0), 1) } :
        LET total_unique == Len(ops)
            ok == total_unique > 0 /\ failAt = total_unique
            inserted_total == Cardinality(written.upserted_ids)
        IN
        /\ clock <= MaxCalls
        /\ failAt <= total_unique
        /\ store' = written.st
        /\ clock' = clock + 1
        /\ last' = [op |-> "insert_many", batch |-> batch, run_id |-> run_id,
                    status |-> IF ok THEN "ok" ELSE "raised",
                    result |-> IF ok
                               THEN [inserted_count |-> inserted_total,
                                     existing_count |-> total_unique - inserted_total,
                                     total_unique_urls |-> total_unique,
                                     inserted_ids |-> { <<ops[p[1]].url, p[2]>> :
                                                          p \in written.upserted_ids }]
                               ELSE <<>>,
                    before |-> store]
        /\ sameAsPrev' = (ok /\ last.op = "insert_many" /\ last.status = "ok"
                             /\ last.batch = batch)

\* a call of insert_many_articles by a caller of the service
InsertMany(batch, run_id, failAt) ==
    /\ InsertManyCall(batch, run_id, failAt)
    /\ UNCHANGED notStore

\* insert_one_article(article); fails = TRUE: update_one raises, re-raised at 135
InsertOne(article, fails) ==
    LET doc == ModelDumpExcludeNone(article) @@ ("created_at" :> clock)
        res == UpdateOneSetOnInsert(store, article.url, doc)
    IN
    /\ clock <= MaxCalls
    /\ store' = IF fails THEN store ELSE res.st
    /\ clock' = clock + 1
    /\ last' = [op |-> "insert_one", batch |-> <<article>>, run_id |-> None,
                status |-> IF fails THEN "raised"
                           ELSE IF res.upserted_id # None THEN "success" ELSE "exists",
                result |-> IF fails THEN <<>> ELSE [inserted_id |-> res.upserted_id],
                before |-> store]
    /\ sameAsPrev' = FALSE
    /\ UNCHANGED notStore

NextStore ==
    \/ \E batch \in SeqsUpTo(StoreArticles, MaxBatch) :
          \E failAt \in 0..Len(batch), run_id \in RunIds(clock) :
              InsertMany(batch, run_id, failAt)
    \/ \E article \in StoreArticles, fails \in BOOLEAN : InsertOne(article, fails)

SpecStore == InitStore /\ [][NextStore]_vars

(***************************************************************************)
(* Properties of insert_many_articles and insert_one_article               *)
(***************************************************************************)
BatchUrls(batch) == { batch[i].url : i \in DOMAIN batch }
StoredUrls(st) == { st[i].url : i \in DOMAIN st }
ManyReturned == last.op = "insert_many" /\ last.status = "ok"

\* C4: the store never holds two records of one url; and when
\* insert_many_articles returns, total_unique_urls is the number of distinct urls
\* of the batch, inserted_count + existing_count equals it, and each url of the
\* batch was inserted at most once: the call added exactly inserted_count
\* records, one per url reported in inserted_ids, all urls of the batch that
\* were not stored before.
C4_InsertDedup ==
    /\ \A i, j \in DOMAIN store : store[i].url = store[j].url => i = j
    /\ ManyReturned =>
         LET r == last.result IN
         /\ r.total_unique_urls = Cardinality(BatchUrls(last.batch))
         /\ r.inserted_count + r.existing_count = r.total_unique_urls
         /\ Len(store) - Len(last.before) = r.inserted_count
         /\ Cardinality(r.inserted_ids) = r.inserted_count
         /\ { p[1] : p \in r.inserted_ids } = BatchUrls(last.batch) \ StoredUrls(last.before)
         /\ \A p \in r.inserted_ids :
               \E i \in DOMAIN store : store[i]["_id"] = p[2] /\ store[i].url = p[1]

C4_Witness ==
    /\ ManyReturned
    /\ Len(last.batch) > Cardinality(BatchUrls(last.batch))
    /\ last.result.inserted_count = 1
    /\ Len(last.before) = 1

\* C5: a call of insert_many_articles that returns reports as inserted_count the
\* number of distinct urls of the batch that were not stored before it; and when
\* the same batch is passed again in the next call, that call reports
\* inserted_count = 0 and existing_count = the number of distinct urls, and
\* leaves the store as the first call left it.
C5_InsertIdempotent ==
    /\ ManyReturned =>
         last.result.inserted_count
            = Cardinality(BatchUrls(last.batch) \ StoredUrls(last.before))
    /\ sameAsPrev =>
         /\ last.result.inserted_count = 0
         /\ last.result.existing_count = Cardinality(BatchUrls(last.batch))
         /\ store = last.before

C5_Witness ==
    /\ sameAsPrev
    /\ Cardinality(BatchUrls(last.batch)) = 2
    /\ last.run_id # None
    /\ \E i \in DOMAIN store : "pipeline_run_id" \notin DOMAIN store[i]

StoredSame(article, doc) ==
    \A f \in ArticleFields : ToArticle(doc)[f] = article[f]

\* C6: insert_many_articles and insert_one_article leave every record that
\* existed before the call exactly as it was (created_at and pipeline_run_id
\* included), also when the call carries other field values for its url or
\* fails; a url that was stored is counted as existing (insert_many_articles)
\* or answered with status "exists" (insert_one_article).
C6_InsertNeverOverwrites ==
    last.op \in {"insert_many", "insert_one"} =>
        /\ Len(store) >= Len(last.before)
        /\ \A i \in DOMAIN last.before : store[i] = last.before[i]
        /\ ManyReturned =>
             last.result.existing_count
                = Cardinality(BatchUrls(last.batch) \cap StoredUrls(last.before))
        /\ (last.op = "insert_one" /\ last.status # "raised") =>
             (last.status = "exists" <=> last.batch[1].url \in StoredUrls(last.before))

C6_Witness ==
    /\ ManyReturned
    /\ last.run_id # None
    /\ \E i \in DOMAIN last.before, k \in DOMAIN last.batch :
          /\ last.before[i].url = last.batch[k].url
          /\ ~StoredSame(last.batch[k], last.before[i])
          /\ last.before[i].created_at # clock - 1
          /\ "pipeline_run_id" \notin DOMAIN last.before[i]

C6_WitnessOne ==
    /\ last.op = "insert_one"
    /\ last.status = "exists"
    /\ \E i \in DOMAIN last.before :
          /\ last.before[i].url = last.batch[1].url
          /\ ~StoredSame(last.batch[1], last.before[i])

(***************************************************************************)
(* GeminiService.summarize_article / to_article_fields and                 *)
(* ArticlePipelineController._process_one                                  *)
(***************************************************************************)
MaxItems == 1

\* models.LlmSummary, the modelled fields: source and sentiment (plain Optional
\* fields that Article has under the same name) and ticker_sentiment_items
LlmPlainFields == {"source", "sentiment"}

\* models.TickerSentiment as model_dump() gives it
TickerItems ==
    { [ticker |-> "aapl", score |-> Some(1)],
      [ticker |-> " ", score |-> Some(1)],
      [ticker |-> "MSFT", score |-> None] }

\* (it.get("ticker") or "").upper().strip()
UpperStrip(t) == CASE t = "aapl" -> "AAPL"
                   [] t = " " -> ""
                   [] OTHER -> t

RECURSIVE TickerSentiments(_, _)
\* lines 94-107: the dict ticker -> float(score) built from the items in order; an
\* item without ticker is skipped, a score that is no number is not entered
TickerSentiments(items, dict) ==
    IF items = <<>> THEN dict
    ELSE LET t == UpperStrip(Head(items).ticker)
             score == Head(items).score
         IN IF t = "" \/ score = None
            THEN TickerSentiments(Tail(items), dict)
            ELSE TickerSentiments(Tail(items), (t :> score[1]) @@ dict)

\* a to_article_fields whose schema also carries a title
ToArticleFieldsWithTitle(llm) ==
    [f \in LlmPlainFields \cup {"ticker_sentiments", "title"} |->
        IF f = "title" THEN "llm title"
        ELSE IF f \in LlmPlainFields THEN llm[f] ELSE None]

\* to_article_fields: model_dump() keeps every field of LlmSummary, the unset ones
\* as None; ticker_sentiment_items is popped and replaced by the key
\* ticker_sentiments, None when the dict is empty
ToArticleFields(llm) ==
    LET items == IF llm.ticker_sentiment_items = None THEN <<>>
                 ELSE llm.ticker_sentiment_items[1]
        dict == TickerSentiments(items, <<>>)
    IN [f \in LlmPlainFields \cup {"ticker_sentiments"} |->
          IF f \in LlmPlainFields THEN llm[f]
          ELSE IF DOMAIN dict = {} THEN None ELSE Some(dict)]

\* article.model_copy(update=llm_fields): every key of the update is written on
\* the copy with the value given, a None like any other value
ModelCopyUpdate(a, upd) ==
    [f \in DOMAIN a \cup DOMAIN upd |-> IF f \in DOMAIN upd THEN upd[f] ELSE a[f]]

\* what the LLM request of summarize_article can do: an exception escapes
\* summarize_article ("raise"), the request fails or parses to nothing
\* (send_request returns None), or it returns a parsed LlmSummary
LlmResponses ==
    [source : {None, Some("Reuters")},
     sentiment : {None, Some("positive")},
     ticker_sentiment_items : {None} \cup { Some(s) : s \in SeqsUpTo(TickerItems, MaxItems) }]

NoLlm == [source |-> None, sentiment |-> None, ticker_sentiment_items |-> None]

\* what one call of summarize_article meets: the LLM request raises ("raise":
\* send_request catches it, lines 77-79, and returns None), the response has
\* no parsed value ("none"), summarize_article itself raises outside the request
\* ("error", e.g. in to_article_fields), or the request returns a summary ("ok")
LlmOutcomes ==
    { [kind |-> "raise", llm |-> NoLlm], [kind |-> "none", llm |-> NoLlm],
      [kind |-> "error", llm |-> NoLlm] }
    \cup { [kind |-> "ok", llm |-> r] : r \in LlmResponses }

\* summarize_article raises instead of returning
SummarizeRaises(o) == o.kind = "error"

\* summarize_article(article): None, or the dict of to_article_fields
SummarizeArticle(o) == IF o.kind = "ok" THEN Some(ToArticleFields(o.llm)) ELSE None

\* _process_one(article) when the LLM request does o: None when summarize_article
\* raises (caught at line 99) or returns nothing, else the merged copy
ProcessOne(article, o) ==
    IF o.kind = "raise" \/ SummarizeRaises(o) \/ SummarizeArticle(o) = None
    THEN None
    ELSE Some(ModelCopyUpdate(article, SummarizeArticle(o)[1]))

MergeArticles ==
    { [NewArticle("u1", "t1", d) EXCEPT !.summary = sm, !.source = so,
                                        !.sentiment = se, !.ticker_sentiments = ts] :
        d \in {None, Some(DateStrings[2])},
        sm \in {None, Some("scraped summary")},
        so \in {None, Some("Yahoo")},
        se \in {None, Some("neutral")},
        ts \in {None, Some("TSLA" :> 1)} }

InitMerge ==
    /\ IdleWriters
    /\ IdleBatch
    /\ IdleFetch
    /\ IdleStore
    /\ IdleBackfill
    /\ IdleRun
    /\ mpc = "start"
    /\ mArticle \in { Some(a) : a \in MergeArticles }
    /\ mOutcome = None
    /\ mFields = None
    /\ mResult = None

\* _process_one without its try/except: an exception of summarize_article leaves
\* the call
ProcessOneCallNoCatch(o) ==
    /\ mpc = "start"
    /\ mOutcome' = Some(o)
    /\ mFields' = IF o.kind = "raise" \/ SummarizeRaises(o) THEN None ELSE SummarizeArticle(o)
    /\ IF SummarizeRaises(o)
       THEN /\ mResult' = None
            /\ mpc' = "raised"
       ELSE /\ mResult' = ProcessOne(mArticle[1], o)
            /\ mpc' = "done"
    /\ UNCHANGED mArticle
    /\ UNCHANGED notMerge

\* one call of _process_one(article)
ProcessOneCall(o) ==
    /\ mpc = "start"
    /\ mOutcome' = Some(o)
    /\ mFields' = IF o.kind = "raise" \/ SummarizeRaises(o) THEN None ELSE SummarizeArticle(o)
    /\ mResult' = ProcessOne(mArticle[1], o)
    /\ mpc' = "done"
    /\ UNCHANGED mArticle
    /\ UNCHANGED notMerge

NextMerge == \E o \in LlmOutcomes : ProcessOneCall(o)

SpecMerge == InitMerge /\ [][NextMerge]_vars

(***************************************************************************)
(* Properties of the enrichment merge                                      *)
(***************************************************************************)
\* C7 (as claimed): a field F of the article that is set stays as it is in the
\* updated article whenever the enrichment result gives F as None or does not
\* give it.
C7_MergeKeepsNonNull ==
    (mpc = "done" /\ mResult # None) =>
        \A F \in OptionalFields :
            (mArticle[1][F] # None /\ (F \notin DOMAIN mFields[1] \/ mFields[1][F] = None))
                => mResult[1][F] = mArticle[1][F]

\* C8: the updated article returned by _process_one has the url, title and
\* content of the original, and the fields of Article, for every article and
\* every enrichment result.
C8_MergeKeepsIdentity ==
    (mpc = "done" /\ mResult # None) =>
        /\ DOMAIN mResult[1] = ArticleFields
        /\ \A F \in RequiredFields : mResult[1][F] = mArticle[1][F]

C8_Witness ==
    /\ mpc = "done"
    /\ mResult # None
    /\ mResult[1] # mArticle[1]
    /\ mArticle[1].source # None
    /\ mResult[1].source # mArticle[1].source
    /\ mResult[1].ticker_sentiments = Some("AAPL" :> 1)

(***************************************************************************)
(* ArticlePipelineController.backfill_articles                             *)
(***************************************************************************)
MaxStored == 2
MaxPage == 2
MaxWorkers == 2
MaxReads == 3
MaxInserts == 1

\* the articles in the store when the backfill starts, in insertion order
SeedArticles ==
    << [NewArticle("u1", "t1", Some(DateStrings[2])) EXCEPT !.source = Some("Yahoo")],
       NewArticle("u2", "t1", None),
       NewArticle("u3", "t1", Some(DateStrings[3])),
       [NewArticle("u4", "t1", None) EXCEPT !.source = Some("Benzinga")] >>

SeedStore(n) == BulkWrite(<<>>, BatchDocs(SubSeq(SeedArticles, 1, n), 0, None, {}), 1).st

\* the LLM request of one enrichment call in a backfill
BackfillOutcomes ==
    { [kind |-> "raise", llm |-> NoLlm], [kind |-> "none", llm |-> NoLlm],
      [kind |-> "ok", llm |-> [source |-> None, sentiment |-> Some("positive"),
                               ticker_sentiment_items |-> None]] }

RECURSIVE Take(_, _)
Take(seq, n) == IF n = 0 \/ seq = <<>> THEN <<>> ELSE <<Head(seq)>> \o Take(Tail(seq), n - 1)

AfterCursor(st, cursor) ==
    SelectSeq(st, LAMBDA doc : cursor = None \/ doc["_id"] > cursor[1])

\* get_articles_batch(limit, last_id), ascending: the first `limit` documents with
\* _id > last_id (all documents when last_id is None) in _id order, each turned
\* into an Article.  find(...).sort(...).limit(limit): a limit of 0 is no limit
\* (pymongo Cursor.limit), every matching document is returned.
GetArticlesBatch(st, limit, cursor) ==
    LET matching == AfterCursor(st, cursor)
        docs == IF limit = 0 THEN matching ELSE Take(matching, limit)
    IN [i \in DOMAIN docs |-> ToArticle(docs[i])]

\* getattr(obj, name, None) on an Article: the value of a field of that name that
\* is set, else None
GetAttr(a, name) ==
    IF name \notin DOMAIN a THEN None
    ELSE IF name \in RequiredFields THEN Some(a[name]) ELSE a[name]

\* line 141: getattr(batch[-1], "id", None) or getattr(batch[-1], "_id", None) or None
IdOf(a) ==
    IF GetAttr(a, "id") # None THEN GetAttr(a, "id")
    ELSE IF GetAttr(a, "_id") # None THEN GetAttr(a, "_id")
    ELSE None

RECURSIVE UpsertManyArticles(_, _)
\* upsert_many_articles(articles): each article overwrites, field by field, the
\* stored record of its url (inserted when there is none)
UpsertManyArticles(st, arts) ==
    IF arts = <<>> THEN st
    ELSE LET a == Head(arts)
             doc == ModelDumpExcludeNone(a)
             hits == Matching(st, a.url)
             next == IF hits # {}
                     THEN [i \in DOMAIN st |-> IF i \in hits THEN doc @@ st[i] ELSE st[i]]
                     ELSE Append(st, ("_id" :> Len(st) + 1) @@ doc)
         IN UpsertManyArticles(next, Tail(arts))

Running == { i \in DOMAIN task : task[i] = "running" }
Queued == { i \in DOMAIN task : task[i] = "queued" }

\* per_call_timeout: Optional[float] = None; line 151 uses it when it is truthy
PerCallTimeouts == { None, Some(1) }

\* a pool that starts a thread for every submitted task
WorkerFreeUnbounded == TRUE

\* ThreadPoolExecutor(max_workers=max_workers): a queued task is taken only by a
\* worker thread, and there are at most max_workers of them
WorkerFree == Cardinality(Running) < max_workers

InitBackfill ==
    /\ IdleWriters
    /\ IdleBatch
    /\ IdleFetch
    /\ IdleMerge
    /\ IdleRun
    /\ \E n \in 0..MaxStored : store = SeedStore(n)
    /\ clock = 1
    /\ last = NoCall
    /\ sameAsPrev = FALSE
    /\ bpc = "loop"
    /\ batch_size \in 1..MaxPage
    /\ max_workers \in 1..MaxWorkers
    /\ limit_total \in {None} \cup { Some(k) : k \in 0..MaxStored }
    /\ last_id = None
    /\ processed_total = 0
    /\ updated_total = 0
    /\ failed_total = 0
    /\ page = <<>>
    /\ task = <<>>
    /\ updated_batch = <<>>
    /\ reads = 0
    /\ pageBase = Counters(0, 0, 0)
    /\ per_call_timeout \in PerCallTimeouts
    /\ late = {}
    /\ submitted = <<>>
    /\ calls = <<>>
    /\ upsert_calls = <<>>

\* a cap that stops the loop only once processed has passed it
LimitReachedStrict == limit_total # None /\ processed_total > limit_total[1]

\* line 128: limit_total is not None and processed_total >= limit_total
LimitReached == limit_total # None /\ processed_total >= limit_total[1]

\* lines 128-129 and 174-178: the cap is reached, the loop ends and the counters
\* are returned
BackfillBreakAtLimit ==
    /\ bpc = "loop"
    /\ LimitReached
    /\ bpc' = "returned"
    /\ UNCHANGED <<batch_size, max_workers, limit_total, last_id, processed_total,
                   updated_total, failed_total, page, task, updated_batch, reads, pageBase,
                   per_call_timeout, late, submitted, calls, upsert_calls>>
    /\ UNCHANGED store
    /\ UNCHANGED notBackfill

\* BackfillReadPage with counters that are kept per page: they start again at
\* zero with every page
BackfillReadPagePerPage ==
    /\ bpc = "loop"
    /\ ~LimitReached
    /\ reads < MaxReads
    /\ reads' = reads + 1
    /\ LET batch == GetArticlesBatch(store, batch_size, last_id) IN
       IF batch = <<>>
       THEN /\ bpc' = "returned"
            /\ UNCHANGED <<last_id, page, task, updated_batch, pageBase, late, submitted,
                           calls, upsert_calls, processed_total, updated_total,
                           failed_total>>
       ELSE /\ bpc' = "pool"
            /\ last_id' = IdOf(batch[Len(batch)])
            /\ page' = batch
            /\ task' = [i \in DOMAIN batch |-> "queued"]
            /\ updated_batch' = <<>>
            /\ processed_total' = 0
            /\ updated_total' = 0
            /\ failed_total' = 0
            /\ pageBase' = Counters(0, 0, 0)
            /\ late' = {}
            /\ submitted' = submitted \o [i \in DOMAIN batch |-> batch[i].url]
            /\ calls' = [i \in DOMAIN batch |-> 0]
            /\ upsert_calls' = <<>>
    /\ UNCHANGED <<batch_size, max_workers, limit_total, per_call_timeout>>
    /\ UNCHANGED store
    /\ UNCHANGED notBackfill

\* lines 132-146: the next page is read; an empty page ends the loop, else the
\* cursor is taken from the last article and every article is submitted to the pool
BackfillReadPage ==
    /\ bpc = "loop"
    /\ ~LimitReached
    /\ reads < MaxReads
    /\ reads' = reads + 1
    /\ LET batch == GetArticlesBatch(store, batch_size, last_id) IN
       IF batch = <<>>
       THEN /\ bpc' = "returned"
            /\ UNCHANGED <<last_id, page, task, updated_batch, pageBase, late, submitted,
                           calls, upsert_calls>>
       ELSE /\ bpc' = "pool"
            /\ last_id' = IdOf(batch[Len(batch)])
            /\ page' = batch
            /\ task' = [i \in DOMAIN batch |-> "queued"]
            /\ updated_batch' = <<>>
            /\ pageBase' = Counters(processed_total, updated_total, failed_total)
            /\ late' = {}
            /\ submitted' = submitted \o [i \in DOMAIN batch |-> batch[i].url]
            /\ calls' = [i \in DOMAIN batch |-> 0]
            /\ upsert_calls' = <<>>
    /\ UNCHANGED <<batch_size, max_workers, limit_total, processed_total, updated_total,
                   failed_total, per_call_timeout>>
    /\ UNCHANGED store
    /\ UNCHANGED notBackfill

\* a worker thread takes the oldest queued task and enters _process_one, which
\* calls summarize_article (line 91)
StartTask(i) ==
    /\ bpc = "pool"
    /\ i \in Queued
    /\ \A j \in Queued : i <= j
    /\ WorkerFree
    /\ task' = [task EXCEPT ![i] = "running"]
    /\ calls' = [calls EXCEPT ![i] = @ + 1]
    /\ UNCHANGED <<bpc, batch_size, max_workers, limit_total, last_id, processed_total,
                   updated_total, failed_total, page, updated_batch, reads, pageBase,
                   per_call_timeout, late, submitted, upsert_calls>>
    /\ UNCHANGED store
    /\ UNCHANGED notBackfill

\* FinishTask with a failed call counted as in the except branch of lines 152-155
\* (failed += 1; continue), which skips processed += 1
FinishTaskFailureUncounted(i, o, slow) ==
    /\ bpc = "pool"
    /\ i \in Running
    /\ slow => per_call_timeout # None
    /\ task' = [task EXCEPT ![i] = o.kind]
    /\ LET updated == ProcessOne(page[i], o) IN
       IF updated = None
       THEN /\ failed_total' = failed_total + 1
            /\ UNCHANGED <<processed_total, updated_total, updated_batch>>
       ELSE /\ processed_total' = processed_total + 1
            /\ updated_total' = updated_total + 1
            /\ updated_batch' = Append(updated_batch, updated[1])
            /\ UNCHANGED failed_total
    /\ late' = IF slow THEN late \cup {i} ELSE late
    /\ UNCHANGED <<bpc, batch_size, max_workers, limit_total, last_id, page, reads, pageBase,
                   per_call_timeout, submitted, calls, upsert_calls>>
    /\ UNCHANGED store
    /\ UNCHANGED notBackfill

\* FinishTask with counters that the worker threads increment themselves, without
\* a lock: while another call is in flight the two read-modify-write sequences
\* can overlap, and one of the increments is then lost
FinishTaskRacyCounters(i, o, slow) ==
    /\ bpc = "pool"
    /\ i \in Running
    /\ slow => per_call_timeout # None
    /\ task' = [task EXCEPT ![i] = o.kind]
    /\ \E lost \in { FALSE, Cardinality(Running) > 1 } :
          LET step == IF lost THEN 0 ELSE 1
              updated == ProcessOne(page[i], o)
          IN /\ processed_total' = processed_total + step
             /\ IF updated = None
                THEN /\ failed_total' = failed_total + step
                     /\ UNCHANGED <<updated_total, updated_batch>>
                ELSE /\ updated_total' = updated_total + step
                     /\ updated_batch' = Append(updated_batch, updated[1])
                     /\ UNCHANGED failed_total
    /\ late' = IF slow THEN late \cup {i} ELSE late
    /\ UNCHANGED <<bpc, batch_size, max_workers, limit_total, last_id, page, reads, pageBase,
                   per_call_timeout, submitted, calls, upsert_calls>>
    /\ UNCHANGED store
    /\ UNCHANGED notBackfill

\* FinishTask with a worker that tries a failed enrichment a second time: the
\* task of a first failed call goes back to the queue
FinishTaskRetries(i, o, slow) ==
    /\ bpc = "pool"
    /\ i \in Running
    /\ slow => per_call_timeout # None
    /\ LET updated == ProcessOne(page[i], o) IN
       IF updated = None /\ calls[i] < 2
       THEN /\ task' = [task EXCEPT ![i] = "queued"]
            /\ UNCHANGED <<processed_total, updated_total, failed_total, updated_batch>>
       ELSE /\ task' = [task EXCEPT ![i] = o.kind]
            /\ processed_total' = processed_total + 1
            /\ IF updated = None
               THEN /\ failed_total' = failed_total + 1
                    /\ UNCHANGED <<updated_total, updated_batch>>
               ELSE /\ updated_total' = updated_total + 1
                    /\ updated_batch' = Append(updated_batch, updated[1])
                    /\ UNCHANGED failed_total
    /\ late' = IF slow THEN late \cup {i} ELSE late
    /\ UNCHANGED <<bpc, batch_size, max_workers, limit_total, last_id, page, reads, pageBase,
                   per_call_timeout, submitted, calls, upsert_calls>>
    /\ UNCHANGED store
    /\ UNCHANGED notBackfill

\* FinishTask with a _process_one that lets the adapter's exception through:
\* fut.result() raises it and the except branch of lines 152-155 is taken, which
\* counts the article as failed and not as processed
FinishTaskExceptBranch(i, o, slow) ==
    /\ bpc = "pool"
    /\ i \in Running
    /\ slow => per_call_timeout # None
    /\ task' = [task EXCEPT ![i] = o.kind]
    /\ IF o.kind = "raise"
       THEN /\ failed_total' = failed_total + 1
            /\ UNCHANGED <<processed_total, updated_total, updated_batch>>
       ELSE /\ processed_total' = processed_total + 1
            /\ LET updated == ProcessOne(page[i], o) IN
               IF updated = None
               THEN /\ failed_total' = failed_total + 1
                    /\ UNCHANGED <<updated_total, updated_batch>>
               ELSE /\ updated_total' = updated_total + 1
                    /\ updated_batch' = Append(updated_batch, updated[1])
                    /\ UNCHANGED failed_total
    /\ late' = IF slow THEN late \cup {i} ELSE late
    /\ UNCHANGED <<bpc, batch_size, max_workers, limit_total, last_id, page, reads, pageBase,
                   per_call_timeout, submitted, calls, upsert_calls>>
    /\ UNCHANGED store
    /\ UNCHANGED notBackfill

\* FinishTask with a loop that passes the original article on when its
\* enrichment failed
FinishTaskKeepsFailed(i, o, slow) ==
    /\ bpc = "pool"
    /\ i \in Running
    /\ slow => per_call_timeout # None
    /\ task' = [task EXCEPT ![i] = o.kind]
    /\ processed_total' = processed_total + 1
    /\ LET updated == ProcessOne(page[i], o) IN
       IF updated = None
       THEN /\ failed_total' = failed_total + 1
            /\ updated_batch' = Append(updated_batch, page[i])
            /\ UNCHANGED updated_total
       ELSE /\ updated_total' = updated_total + 1
            /\ updated_batch' = Append(updated_batch, updated[1])
            /\ UNCHANGED failed_total
    /\ late' = IF slow THEN late \cup {i} ELSE late
    /\ UNCHANGED <<bpc, batch_size, max_workers, limit_total, last_id, page, reads, pageBase,
                   per_call_timeout, submitted, calls, upsert_calls>>
    /\ UNCHANGED store
    /\ UNCHANGED notBackfill

\* lines 148-163: the call of task i ends, its future completes and the
\* as_completed loop handles it.  _process_one catches every Exception, so
\* fut.result() returns its value and the except branch of line 152 is not taken.
\* slow = TRUE: the call ran longer than per_call_timeout.  as_completed (called
\* without a timeout) yields a future only once it is done, and result(timeout=...)
\* of a done future returns its value at once: the timeout does not change what
\* the loop does with the task.
FinishTask(i, o, slow) ==
    /\ bpc = "pool"
    /\ i \in Running
    /\ slow => per_call_timeout # None
    /\ task' = [task EXCEPT ![i] = o.kind]
    /\ processed_total' = processed_total + 1
    /\ LET updated == ProcessOne(page[i], o) IN
       IF updated = None
       THEN /\ failed_total' = failed_total + 1
            /\ UNCHANGED <<updated_total, updated_batch>>
       ELSE /\ updated_total' = updated_total + 1
            /\ updated_batch' = Append(updated_batch, updated[1])
            /\ UNCHANGED failed_total
    /\ late' = IF slow THEN late \cup {i} ELSE late
    /\ UNCHANGED <<bpc, batch_size, max_workers, limit_total, last_id, page, reads, pageBase,
                   per_call_timeout, submitted, calls, upsert_calls>>
    /\ UNCHANGED store
    /\ UNCHANGED notBackfill

AllCollected == \A i \in DOMAIN task : task[i] \notin {"queued", "running"}

\* the as_completed loop has handled every future and the with block is left
PoolDone ==
    /\ bpc = "pool"
    /\ AllCollected
    /\ bpc' = "upsert"
    /\ UNCHANGED <<batch_size, max_workers, limit_total, last_id, processed_total,
                   updated_total, failed_total, page, task, updated_batch, reads, pageBase,
                   per_call_timeout, late, submitted, calls, upsert_calls>>
    /\ UNCHANGED store
    /\ UNCHANGED notBackfill

\* UpsertPage with a backfill that undoes its earlier upserts when one fails: the
\* records are put back as they were when the backfill started
UpsertPageRollback(fails) ==
    /\ bpc = "upsert"
    /\ IF updated_batch = <<>>
       THEN /\ ~fails
            /\ bpc' = "loop"
            /\ UNCHANGED <<store, upsert_calls>>
       ELSE /\ upsert_calls' = Append(upsert_calls, updated_batch)
            /\ IF fails
               THEN /\ bpc' = "raised"
                    /\ store' = SeedStore(Len(store))
               ELSE /\ bpc' = "loop"
                    /\ store' = UpsertManyArticles(store, updated_batch)
    /\ UNCHANGED <<batch_size, max_workers, limit_total, last_id, processed_total,
                   updated_total, failed_total, page, task, updated_batch, reads, pageBase,
                   per_call_timeout, late, submitted, calls>>
    /\ UNCHANGED notBackfill

\* UpsertPage without the test of line 165: upsert_many_articles is called with
\* the updated batch of every page, also an empty one
UpsertPageUnguarded(fails) ==
    /\ bpc = "upsert"
    /\ upsert_calls' = Append(upsert_calls, updated_batch)
    /\ IF fails
       THEN /\ bpc' = "raised"
            /\ UNCHANGED store
       ELSE /\ bpc' = "loop"
            /\ store' = UpsertManyArticles(store, updated_batch)
    /\ UNCHANGED <<batch_size, max_workers, limit_total, last_id, processed_total,
                   updated_total, failed_total, page, task, updated_batch, reads, pageBase,
                   per_call_timeout, late, submitted, calls>>
    /\ UNCHANGED notBackfill

\* lines 165-172: a non-empty updated batch is upserted; the call is not guarded, so
\* an exception of upsert_many_articles leaves backfill_articles
UpsertPage(fails) ==
    /\ bpc = "upsert"
    /\ IF updated_batch = <<>>
       THEN /\ ~fails
            /\ bpc' = "loop"
            /\ UNCHANGED <<store, upsert_calls>>
       ELSE /\ upsert_calls' = Append(upsert_calls, updated_batch)
            /\ IF fails
               THEN /\ bpc' = "raised"
                    /\ UNCHANGED store
               ELSE /\ bpc' = "loop"
                    /\ store' = UpsertManyArticles(store, updated_batch)
    /\ UNCHANGED <<batch_size, max_workers, limit_total, last_id, processed_total,
                   updated_total, failed_total, page, task, updated_batch, reads, pageBase,
                   per_call_timeout, late, submitted, calls>>
    /\ UNCHANGED notBackfill

\* another writer calls insert_one_article while the backfill runs: the next
\* article that is not stored yet gets a record, under an _id above all others.
\* The backfill touches the store only when it reads a page and when it upserts
\* one (which adds no record), so an insert at any moment of a page's processing
\* has the effect of one made before the next read, where it is taken here.
ConcurrentInsert ==
    /\ bpc = "loop"
    /\ Len(store) < Len(SeedArticles)
    /\ Cardinality({ i \in DOMAIN store : store[i].created_at = clock }) < MaxInserts
    /\ LET a == SeedArticles[Len(store) + 1]
           doc == ModelDumpExcludeNone(a) @@ ("created_at" :> clock)
       IN store' = UpdateOneSetOnInsert(store, a.url, doc).st
    /\ UNCHANGED backfillVars
    /\ UNCHANGED notBackfill

NextBackfill ==
    \/ BackfillBreakAtLimit
    \/ BackfillReadPage
    \/ \E i \in 1..MaxPage : StartTask(i)
    \/ \E i \in 1..MaxPage, o \in BackfillOutcomes, slow \in BOOLEAN : FinishTask(i, o, slow)
    \/ PoolDone
    \/ \E fails \in BOOLEAN : UpsertPage(fails)

SpecBackfill == InitBackfill /\ [][NextBackfill]_vars

\* a backfill called without per_call_timeout (the default)
InitNoTimeout == InitBackfill /\ per_call_timeout = None

\* a backfill whose thread keeps running and whose enrichment calls all end:
\* a step that stays possible is taken
SpecBackfillFair == InitNoTimeout /\ [][NextBackfill]_vars /\ WF_vars(NextBackfill)

\* a backfill over a store that other writers add to while it runs
NextGrowing ==
    \/ NextBackfill
    \/ ConcurrentInsert

SpecGrowing == InitBackfill /\ [][NextGrowing]_vars

(***************************************************************************)
(* Properties of the enrichment stage of backfill_articles                 *)
(***************************************************************************)
FailedTasks == { i \in DOMAIN task : task[i] \in {"raise", "none"} }
EnrichedTasks == { i \in DOMAIN task : task[i] = "ok" }

\* C9: when the enrichment stage of a page of n articles is over and the
\* adapter failed (raised or returned nothing) on k of them, processed has grown
\* by n, updated by n - k and failed by k, and the updated batch holds exactly
\* the n - k enriched articles; a failing article does not end the run: the run
\* only raises out of the upsert that follows the stage.
C9_EnrichmentCounts ==
    /\ bpc = "upsert" =>
         LET n == Len(page)
             k == Cardinality(FailedTasks)
         IN /\ n > 0
            /\ Cardinality(FailedTasks \cup EnrichedTasks) = n
            /\ processed_total = pageBase.processed + n
            /\ updated_total = pageBase.updated + (n - k)
            /\ failed_total = pageBase.failed + k
            /\ Len(updated_batch) = n - k
            /\ { updated_batch[j].url : j \in DOMAIN updated_batch }
                  = { page[i].url : i \in EnrichedTasks }
            /\ \A j \in DOMAIN updated_batch : updated_batch[j].sentiment = Some("positive")
    /\ bpc = "raised" => (AllCollected /\ updated_batch # <<>>)

C9_Witness ==
    /\ bpc = "upsert"
    /\ Len(page) = 2
    /\ Cardinality(FailedTasks) = 1
    /\ task[1] \in {"raise", "none"}
    /\ pageBase.processed > 0

\* C10: at every moment of a backfill at most max_workers enrichment calls are
\* in flight, whatever the page size.
C10_BoundedInFlight == Cardinality(Running) <= max_workers

C10_Witness ==
    /\ bpc = "pool"
    /\ max_workers = 1
    /\ Len(page) = 2
    /\ Cardinality(Running) = 1
    /\ Cardinality(Queued) = 1

(***************************************************************************)
(* Properties of the paging loop of backfill_articles                      *)
(***************************************************************************)
InUpdatedBatch(i) == \E j \in DOMAIN updated_batch : updated_batch[j].url = page[i].url

\* C11 (as claimed): with per_call_timeout configured, an article whose
\* enrichment call ran longer than the timeout is never in the updated batch,
\* and when the enrichment stage of its page is over it has been counted in
\* failed, whatever the call returned in the end.
C11_TimeoutIsFailure ==
    per_call_timeout # None =>
        /\ \A i \in late : ~InUpdatedBatch(i)
        /\ bpc = "upsert" =>
              failed_total >= pageBase.failed + Cardinality(late \cup FailedTasks)

CeilDiv(n, p) == (n + p - 1) \div p

\* C12 (as claimed): a backfill without a total cap over a store of N articles
\* with page size p reads no more than ceil(N/p) pages that hold articles (the
\* read that finds the empty page and ends the loop is not counted).
C12_CeilReads ==
    limit_total = None => reads <= CeilDiv(Len(store), batch_size) + 1

\* C13 (as claimed): within one backfill no article (url) is submitted to
\* _process_one more than once, also when articles are inserted while it runs.
C13_SubmittedAtMostOnce ==
    \A i, j \in DOMAIN submitted : submitted[i] = submitted[j] => i = j

\* C14 (as claimed): a failing upsert of a page does not end the backfill: the
\* run never raises out of upsert_many_articles, the loop goes on to the next
\* read.
C14_UpsertFailureScoped == bpc # "raised"

(***************************************************************************)
(* run_article_fetch_pipeline (the trigger) and                            *)
(* ArticlePipelineController.run                                           *)
(***************************************************************************)
MaxRuns == 2
ArticleLimit == 1

RunArticles ==
    { NewArticle("u1", "t1", Some(DateStrings[2])),
      NewArticle("u1", "t2", Some(DateStrings[2])),
      NewArticle("u2", "t1", None) }

\* what a scraper does in a run: it raises, or returns up to article_limit
\* articles
RunScrapeOutcomes ==
    { [kind |-> "raise", arts |-> <<>>] }
    \cup { [kind |-> "ok", arts |-> a] : a \in SeqsUpTo(RunArticles, ArticleLimit) }

\* the messages of the exceptions that can leave run()
ScrapeError == "scrape failed"
InsertError == "Error inserting articles into database"
ExecutionError == "insert_one_execution failed"

\* insert_result = {}
EmptyDict == <<>>

\* d.get(key, default)
DictGet(d, key, default) == IF key \in DOMAIN d THEN d[key] ELSE default

\* pipeline_db_service.insert_one_execution(run_metadata): the record is appended
\* to the collection of pipeline executions
InsertOneExecution(coll, run_metadata) == Append(coll, run_metadata)

InitRun ==
    /\ IdleWriters
    /\ IdleBatch
    /\ IdleMerge
    /\ IdleBackfill
    /\ IdleRun
    /\ store = <<>>
    /\ clock = 1
    /\ last = NoCall
    /\ sameAsPrev = FALSE
    /\ asynchronous \in BOOLEAN
    /\ fpc = "idle"
    /\ scraped = <<>>
    /\ seqIdx = 0
    /\ articles = <<>>
    /\ fetchResult = None

\* the trigger is invoked (again, once the invocation before has returned) and
\* calls pipeline.run(); prev keeps what the run before this one fetched and the
\* store as it left it, when that run returned
TriggerCall ==
    /\ tpc \in {"idle", "returned"}
    /\ runs < MaxRuns
    /\ tpc' = "running"
    /\ runs' = runs + 1
    /\ response' = None
    /\ rpc' = "init"
    /\ pipeline_run_id' = None
    /\ articles_fetched' = None
    /\ insert_result' = None
    /\ exc' = None
    /\ prev' = IF rpc = "done"
               THEN Some([fetched |-> articles_fetched[1], store |-> store])
               ELSE None
    /\ scrape_metadata' = <<>>
    /\ UNCHANGED <<fetchVars, executions, storeVars>>
    /\ UNCHANGED notRun

\* scraper_name of the active scrapers, in the order of active_scrapers (lines 55-62)
ScraperName(i) == <<"yahoo", "marketwatch", "seekingalpha", "benzinga">>[i]

\* s.scrape_metadata after the scrape of a run, of which the model follows
\* whether the scrape returned or failed; a scraper the run did not get to has
\* none
ScrapeMetadata(o) ==
    CASE o.kind = "ok" -> "ok"
      [] o.kind = "pending" -> "idle"
      [] OTHER -> "error"

\* the entries of the scrapers whose scrape did not fail only
SourcesOfSuccesses ==
    LET ran == SelectSeq([i \in Scrapers |-> i], LAMBDA i : scrape_metadata[i] # "error")
    IN [k \in DOMAIN ran |-> [name |-> ScraperName(ran[k])]]

\* lines 229-234: one entry per scraper of active_scrapers, in its order, with the
\* scraper's name (the metadata merged into the entry is not followed)
Sources == [i \in Scrapers |-> [name |-> ScraperName(i)]]

\* lines 196-204: pipeline_run_id = ObjectId(), a fresh identifier per call
RunInit ==
    /\ rpc = "init"
    /\ pipeline_run_id' = Some(runs)
    /\ rpc' = "fetching"
    /\ UNCHANGED <<tpc, response, runs, articles_fetched, insert_result, exc, executions, prev, scrape_metadata>>
    /\ UNCHANGED <<fetchVars, storeVars>>
    /\ UNCHANGED notRun

\* line 206: fetch_latest_news_articles() is entered
RunCallFetch ==
    /\ rpc = "fetching"
    /\ fpc = "idle"
    /\ fpc' = "running"
    /\ scraped' = [i \in Scrapers |-> Pending]
    /\ seqIdx' = 1
    /\ articles' = <<>>
    /\ fetchResult' = None
    /\ UNCHANGED asynchronous
    /\ UNCHANGED <<runVars, storeVars>>
    /\ UNCHANGED notRun

\* lines 206-208: the fetch returns its list, or its exception leaves run();
\* either way the call of fetch_latest_news_articles is over and its locals are gone
RunFetched ==
    /\ rpc = "fetching"
    /\ fpc \in {"returned", "raised"}
    /\ IF fpc = "returned"
       THEN /\ articles_fetched' = fetchResult
            /\ insert_result' = EmptyDict
            /\ rpc' = "persisting"
            /\ exc' = exc
       ELSE /\ rpc' = "raised"
            /\ exc' = Some(ScrapeError)
            /\ UNCHANGED <<articles_fetched, insert_result>>
    /\ fpc' = "idle"
    /\ scraped' = <<>>
    /\ seqIdx' = 0
    /\ articles' = <<>>
    /\ fetchResult' = None
    /\ scrape_metadata' = [i \in DOMAIN scraped |-> ScrapeMetadata(scraped[i])]
    /\ UNCHANGED asynchronous
    /\ UNCHANGED <<tpc, response, runs, pipeline_run_id, executions, prev>>
    /\ UNCHANGED storeVars
    /\ UNCHANGED notRun

\* RunPersist without the test of line 210: the insert is called for every fetch
RunPersistAlways(failAt) ==
    /\ rpc = "persisting"
    /\ InsertManyCall(articles_fetched[1], pipeline_run_id, failAt)
    /\ IF last'.status = "ok"
       THEN /\ insert_result' = last'.result
            /\ rpc' = "finalizing"
            /\ exc' = exc
       ELSE /\ rpc' = "raised"
            /\ exc' = Some(InsertError)
            /\ UNCHANGED insert_result
    /\ UNCHANGED <<tpc, response, runs, pipeline_run_id, articles_fetched, executions, prev, scrape_metadata>>
    /\ UNCHANGED fetchVars
    /\ UNCHANGED notRun

\* RunPersist with the exception of insert_many_articles caught and dropped
RunPersistSwallow(failAt) ==
    /\ rpc = "persisting"
    /\ IF articles_fetched[1] # <<>>
       THEN /\ InsertManyCall(articles_fetched[1], pipeline_run_id, failAt)
            /\ insert_result' = IF last'.status = "ok" THEN last'.result ELSE insert_result
            /\ exc' = IF last'.status = "ok" THEN exc ELSE Some(InsertError)
       ELSE /\ failAt = 0
            /\ UNCHANGED <<storeVars, insert_result, exc>>
    /\ rpc' = "finalizing"
    /\ UNCHANGED <<tpc, response, runs, pipeline_run_id, articles_fetched, executions, prev, scrape_metadata>>
    /\ UNCHANGED fetchVars
    /\ UNCHANGED notRun

\* lines 210-214: insert_many_articles(articles_fetched, pipeline_run_id) when the
\* list is not empty; the call is not guarded, its exception leaves run()
RunPersist(failAt) ==
    /\ rpc = "persisting"
    /\ IF articles_fetched[1] # <<>>
       THEN /\ InsertManyCall(articles_fetched[1], pipeline_run_id, failAt)
            /\ IF last'.status = "ok"
               THEN /\ insert_result' = last'.result
                    /\ rpc' = "finalizing"
                    /\ exc' = exc
               ELSE /\ rpc' = "raised"
                    /\ exc' = Some(InsertError)
                    /\ UNCHANGED insert_result
       ELSE /\ failAt = 0
            /\ rpc' = "finalizing"
            /\ UNCHANGED <<storeVars, insert_result, exc>>
    /\ UNCHANGED <<tpc, response, runs, pipeline_run_id, articles_fetched, executions, prev, scrape_metadata>>
    /\ UNCHANGED fetchVars
    /\ UNCHANGED notRun

\* a run record whose articles_inserted counts every url of the batch, also the
\* ones that were stored already
RunMetadataCountsExisting ==
    ("_id" :> pipeline_run_id[1]) @@
    [pipeline_run_id |-> pipeline_run_id[1],
     status |-> "success",
     sources |-> Sources,
     articles_fetched |-> Len(articles_fetched[1]),
     articles_inserted |-> DictGet(insert_result, "total_unique_urls", 0)]

\* RunMetadata with a status that follows the sources: "failure" when a scraper
\* failed or nothing was inserted
RunMetadataStatusFromSources ==
    ("_id" :> pipeline_run_id[1]) @@
    [pipeline_run_id |-> pipeline_run_id[1],
     status |-> IF \/ \E i \in DOMAIN scrape_metadata : scrape_metadata[i] = "error"
                   \/ DictGet(insert_result, "inserted_count", 0) = 0
                THEN "failure" ELSE "success",
     sources |-> Sources,
     articles_fetched |-> Len(articles_fetched[1]),
     articles_inserted |-> DictGet(insert_result, "inserted_count", 0)]

\* lines 219-238: the run record (the fields the model follows)
RunMetadata ==
    ("_id" :> pipeline_run_id[1]) @@
    [pipeline_run_id |-> pipeline_run_id[1],
     status |-> "success",
     sources |-> Sources,
     articles_fetched |-> Len(articles_fetched[1]),
     articles_inserted |-> DictGet(insert_result, "inserted_count", 0)]

\* lines 216-243: the record is assembled and written; fails = TRUE: the write
\* raises, and the exception leaves run()
RunFinalize(fails) ==
    /\ rpc = "finalizing"
    /\ IF fails
       THEN /\ rpc' = "raised"
            /\ exc' = Some(ExecutionError)
            /\ UNCHANGED executions
       ELSE /\ executions' = InsertOneExecution(executions, RunMetadata)
            /\ rpc' = "done"
            /\ exc' = exc
    /\ UNCHANGED <<tpc, response, runs, pipeline_run_id, articles_fetched, insert_result, prev, scrape_metadata>>
    /\ UNCHANGED <<fetchVars, storeVars>>
    /\ UNCHANGED notRun

\* a trigger without the try/except: an exception of run() leaves the function
TriggerReturnNoCatch ==
    /\ tpc = "running"
    /\ rpc \in {"done", "raised"}
    /\ IF rpc = "done"
       THEN /\ tpc' = "returned"
            /\ response' = Some([text |-> "ok", code |-> 200])
       ELSE /\ tpc' = "raised"
            /\ response' = None
    /\ UNCHANGED <<runs, rpc, pipeline_run_id, articles_fetched, insert_result, exc,
                   executions, prev, scrape_metadata>>
    /\ UNCHANGED <<fetchVars, storeVars>>
    /\ UNCHANGED notRun

\* main_cloud_functions.py 14-20: ("ok", 200) when run() returned, and
\* (f"error: {e}", 500) when it raised e
TriggerReturn ==
    /\ tpc = "running"
    /\ rpc \in {"done", "raised"}
    /\ tpc' = "returned"
    /\ response' = IF rpc = "done"
                   THEN Some([text |-> "ok", code |-> 200])
                   ELSE Some([text |-> "error: " \o exc[1], code |-> 500])
    /\ UNCHANGED <<runs, rpc, pipeline_run_id, articles_fetched, insert_result, exc,
                   executions, prev, scrape_metadata>>
    /\ UNCHANGED <<fetchVars, storeVars>>
    /\ UNCHANGED notRun

NextRun ==
    \/ TriggerCall
    \/ RunInit
    \/ RunCallFetch
    \/ \E o \in RunScrapeOutcomes : SeqScrape(o)
    \/ \E i \in Scrapers, o \in RunScrapeOutcomes : AsyncComplete(i, o)
    \/ FetchReturn
    \/ RunFetched
    \/ \E failAt \in 0..(NumScrapers * ArticleLimit) : RunPersist(failAt)
    \/ \E fails \in BOOLEAN : RunFinalize(fails)
    \/ TriggerReturn

SpecRun == InitRun /\ [][NextRun]_vars

(***************************************************************************)
(* Properties of run() and of the trigger                                  *)
(***************************************************************************)
\* the records of the pipeline executions collection written for the current run
RunRecords ==
    IF pipeline_run_id = None THEN {}
    ELSE { i \in DOMAIN executions : executions[i]["_id"] = pipeline_run_id[1] }

\* insert_many_articles has been called by the current run
InsertCalled ==
    /\ pipeline_run_id # None
    /\ last.op = "insert_many"
    /\ last.run_id = pipeline_run_id

RunOver == rpc \in {"done", "raised"}
PersistenceFailed == exc \in { Some(InsertError), Some(ExecutionError) }
Fetched == IF articles_fetched = None THEN <<>> ELSE articles_fetched[1]

\* C15 (as claimed): a run in which source adapters fail, in either mode, and
\* whose writes to the database do not fail, returns without raising and has
\* persisted exactly one run record; and no record of a run is written before
\* its end.
C15_OneRecordPerRun ==
    /\ (RunOver /\ ~PersistenceFailed) => (rpc = "done" /\ Cardinality(RunRecords) = 1)
    /\ rpc # "done" => RunRecords = {}

\* the order of the stages of run(): the run identifier exists before the fetch
\* is entered, insert_many_articles is called only with the list the fetch
\* returned, and the run record is written only after the persistence stage
RunStagesInOrder ==
    /\ rpc = "init" => (pipeline_run_id = None /\ fpc = "idle")
    /\ fpc # "idle" => (rpc = "fetching" /\ pipeline_run_id # None /\ articles_fetched = None)
    /\ rpc = "fetching" => ~InsertCalled
    /\ InsertCalled => (articles_fetched # None /\ last.batch = articles_fetched[1]
                        /\ rpc \in {"finalizing", "done", "raised"})
    /\ RunRecords # {} => (rpc = "done" /\ (Fetched = <<>> \/ (InsertCalled /\ last.status = "ok")))

\* C16 (as claimed): run() passes through INIT, FETCHING, PERSISTING, FINALIZING
\* and DONE in this order, and DONE is the one state a run ends in, when all
\* sources succeed and when some fail (the database writes not failing).
C16_StagesEndInDone ==
    /\ RunStagesInOrder
    /\ (RunOver /\ ~PersistenceFailed) => rpc = "done"

\* C17: insert_many_articles is called by a run if and only if its fetch
\* returned at least one article; a run that fetched nothing goes on to write its
\* record, which has articles_fetched = 0 and articles_inserted = 0 (and every
\* record has the number of fetched articles and the inserted_count reported).
C17_InsertIffFetched ==
    /\ InsertCalled => Fetched # <<>>
    /\ (rpc \in {"finalizing", "done"} /\ Fetched # <<>>) => (InsertCalled /\ last.status = "ok")
    /\ rpc = "done" =>
         /\ RunRecords # {}
         /\ \A i \in RunRecords :
               /\ executions[i].articles_fetched = Len(Fetched)
               /\ executions[i].articles_inserted
                     = IF Fetched = <<>> THEN 0 ELSE last.result.inserted_count

C17_Witness ==
    /\ rpc = "done"
    /\ runs = 2
    /\ Fetched = <<>>
    /\ store # <<>>
    /\ last.run_id # pipeline_run_id
    /\ \E i \in RunRecords :
          executions[i].articles_fetched = 0 /\ executions[i].articles_inserted = 0

\* C18: when the insert_many_articles call of a run raises, run() raises, no
\* record of that run is written, and the trigger does not raise but answers
\* with status 500.
C18_InsertFailureFatal ==
    (InsertCalled /\ last.status = "raised") =>
        /\ rpc = "raised"
        /\ exc = Some(InsertError)
        /\ RunRecords = {}
        /\ tpc \in {"running", "returned"}
        /\ tpc = "returned" => (response # None /\ response[1].code = 500)

C18_Witness ==
    /\ InsertCalled
    /\ last.status = "raised"
    /\ Len(store) > Len(last.before)
    /\ tpc = "returned"
    /\ response[1].code = 500
    /\ runs = 2
    /\ executions # <<>>

\* C19: the trigger never raises; when it has returned, the answer is ("ok", 200)
\* exactly when run() returned, and ("error: " + the exception's message, 500)
\* exactly when run() raised.
C19_TriggerNeverRaises ==
    /\ tpc # "raised"
    /\ tpc = "returned" =>
         /\ RunOver
         /\ response # None
         /\ rpc = "done" <=> response[1] = [text |-> "ok", code |-> 200]
         /\ rpc = "raised" <=> (exc # None /\ response[1] = [text |-> "error: " \o exc[1],
                                                             code |-> 500])

C19_Witness ==
    /\ tpc = "returned"
    /\ rpc = "raised"
    /\ response[1] = [text |-> "error: scrape failed", code |-> 500]
    /\ runs = 2
    /\ executions # <<>>

\* the two lists hold the same articles, each as many times
SameArticles(l1, l2) == \A a \in RunArticles : Count(l1, a) = Count(l2, a)

\* C20: the store never holds two records of one url; and when a run returns
\* whose sources gave the articles they gave in the run before it (which also
\* returned), the store is as that run left it, the records of the first run
\* kept, and the record of the second run has articles_inserted = 0.
C20_DuplicateTriggerSafe ==
    /\ \A i, j \in DOMAIN store : store[i].url = store[j].url => i = j
    /\ (rpc = "done" /\ prev # None /\ SameArticles(prev[1].fetched, Fetched)) =>
         /\ store = prev[1].store
         /\ RunRecords # {}
         /\ \A i \in RunRecords : executions[i].articles_inserted = 0

C20_Witness ==
    /\ rpc = "done"
    /\ prev # None
    /\ SameArticles(prev[1].fetched, Fetched)
    /\ prev[1].fetched # Fetched
    /\ Len(Fetched) = 2
    /\ store # <<>>
    /\ \A i \in DOMAIN store : store[i].pipeline_run_id # pipeline_run_id[1]

(***************************************************************************)
(* Concurrent callers of ArticleService.insert_many_articles.  Each caller *)
(* sends one ordered bulk write; the server applies the operations of one  *)
(* bulk write in order, one at a time, and interleaves the operations of   *)
(* different bulk writes.  The collection has a unique index on url (line  *)
(* 22), so one UpdateOne upsert is atomic per url: it either finds the     *)
(* document of the url or inserts it.                                      *)
(***************************************************************************)
NumWriters == 2
MaxWriterBatch == 2

Writers == 1..NumWriters

WriterUrls == {"u1", "u2", "u3"}

\* writers scrape the same urls but build their own Article from each
WriterTitle(w) == <<"t1", "t2", "t3", "t4">>[w]

\* the batches a writer may send: up to MaxWriterBatch articles of distinct urls
WriterBatches(w) ==
    { b \in SeqsUpTo({ NewArticle(u, WriterTitle(w), None) : u \in WriterUrls }, MaxWriterBatch) :
        /\ b # <<>>
        /\ \A i, j \in DOMAIN b : b[i].url = b[j].url => i = j }

\* the store before the writers start: empty, or holding a record of "u1" that an
\* earlier call without a run id inserted
WriterSeeds == { <<>>, BulkWrite(<<>>, BatchDocs(<<NewArticle("u1", "t0", None)>>, 0, None, {}), 1).st }

\* lines 138-157 of every writer have run: writer w built its operations with
\* now = w and pipeline_run_id = w, and no operation is applied yet
InitWriters ==
    /\ IdleFetch
    /\ IdleMerge
    /\ IdleBackfill
    /\ IdleRun
    /\ IdleBatch
    /\ store \in WriterSeeds
    /\ clock = 1
    /\ last = NoCall
    /\ sameAsPrev = FALSE
    /\ \E batches \in [Writers -> UNION { WriterBatches(w) : w \in Writers }] :
          /\ \A w \in Writers : batches[w] \in WriterBatches(w)
          /\ writers = [w \in Writers |->
                          [batch |-> batches[w],
                           ops |-> BatchDocs(batches[w], w, Some(w), {}),
                           applied |-> 0,
                           upserted_ids |-> {},
                           result |-> None]]

\* lines 164-176: the result of writer w once its bulk write reported upserted
WriterResult(w, upserted) ==
    LET ops == writers[w].ops
        total_unique == Len(ops)
        inserted_total == Cardinality(upserted)
    IN [inserted_count |-> inserted_total,
        existing_count |-> total_unique - inserted_total,
        total_unique_urls |-> total_unique,
        inserted_ids |-> { <<ops[p[1]].url, p[2]>> : p \in upserted }]

\* the documents a filter sees when the upsert is not atomic: the ones other
\* bulk writes inserted meanwhile are missed
StaleView(st, w) ==
    SelectSeq(st, LAMBDA doc : "pipeline_run_id" \notin DOMAIN doc \/ doc["pipeline_run_id"] = w)

\* WriterStep on a collection without the unique index: the filter is evaluated
\* on a view that misses concurrent inserts, and the document is inserted anyway
WriterStepStale(w) ==
    /\ w \in DOMAIN writers
    /\ writers[w].applied < Len(writers[w].ops)
    /\ LET k == writers[w].applied + 1
           op == writers[w].ops[k]
           one == IF Matching(StaleView(store, w), op.url) # {}
                  THEN [st |-> store, upserted_id |-> None]
                  ELSE InsertAlways(store, op.url, op)
           upserted == IF one.upserted_id = None THEN writers[w].upserted_ids
                       ELSE writers[w].upserted_ids \cup { <<k, one.upserted_id[1]>> }
       IN /\ store' = one.st
          /\ writers' = [writers EXCEPT
                           ![w].applied = k,
                           ![w].upserted_ids = upserted,
                           ![w].result = IF k = Len(writers[w].ops)
                                         THEN Some(WriterResult(w, upserted)) ELSE None]
    /\ UNCHANGED notWriters

\* line 160, on the server: the next operation of the bulk write of writer w is
\* applied, atomically; after the last one bulk_write returns and the writer
\* builds its result from what it alone has seen (lines 164-176)
WriterStep(w) ==
    /\ w \in DOMAIN writers
    /\ writers[w].applied < Len(writers[w].ops)
    /\ LET k == writers[w].applied + 1
           op == writers[w].ops[k]
           one == UpdateOneSetOnInsert(store, op.url, op)
           upserted == IF one.upserted_id = None THEN writers[w].upserted_ids
                       ELSE writers[w].upserted_ids \cup { <<k, one.upserted_id[1]>> }
       IN /\ store' = one.st
          /\ writers' = [writers EXCEPT
                           ![w].applied = k,
                           ![w].upserted_ids = upserted,
                           ![w].result = IF k = Len(writers[w].ops)
                                         THEN Some(WriterResult(w, upserted)) ELSE None]
    /\ UNCHANGED notWriters

NextWriters == \E w \in Writers : WriterStep(w)

SpecWriters == InitWriters /\ [][NextWriters]_vars

(***************************************************************************)
(* Properties of concurrent insert_many_articles calls                     *)
(***************************************************************************)
WritersDone == writers # <<>> /\ \A w \in DOMAIN writers : writers[w].result # None
SentUrls(w) == { writers[w].ops[k].url : k \in DOMAIN writers[w].ops }
CountedBy(w) == { p[1] : p \in writers[w].result[1].inserted_ids }
NewlyStored == { store[i].url : i \in { j \in DOMAIN store : "pipeline_run_id" \in DOMAIN store[j] } }

RECURSIVE SumInserted(_)
SumInserted(n) == IF n = 0 THEN 0
                  ELSE writers[n].result[1].inserted_count + SumInserted(n - 1)

\* C21: when writers call insert_many_articles concurrently with batches that
\* share urls, the store never holds two records of one url, and once all calls
\* have returned every url sent has exactly one record, every url stored by
\* these calls is counted as inserted by exactly one writer (a url stored before
\* by none), each writer's inserted_count is the number of urls it is counted
\* for, and the inserted_count values sum to the number of newly stored urls.
C21_ConcurrentInsertOnce ==
    /\ \A i, j \in DOMAIN store : store[i].url = store[j].url => i = j
    /\ WritersDone =>
         /\ \A w \in DOMAIN writers : \A u \in SentUrls(w) :
               Cardinality(Matching(store, u)) = 1
         /\ \A u \in WriterUrls :
               Cardinality({ w \in DOMAIN writers : u \in CountedBy(w) })
                  = IF u \in NewlyStored THEN 1 ELSE 0
         /\ \A w \in DOMAIN writers :
               /\ CountedBy(w) \subseteq SentUrls(w)
               /\ writers[w].result[1].inserted_count = Cardinality(CountedBy(w))
         /\ SumInserted(Len(writers)) = Cardinality(NewlyStored)

\* two writers sent the same two new urls and each of them inserted one
C21_Witness ==
    /\ WritersDone
    /\ SentUrls(1) = {"u2", "u3"}
    /\ SentUrls(2) = {"u2", "u3"}
    /\ CountedBy(1) = {"u3"}
    /\ CountedBy(2) = {"u2"}
    /\ Len(store) = 3

(***************************************************************************)
(* Further properties of fetch_latest_news_articles                        *)
(***************************************************************************)
RECURSIVE SuccessLength(_)
\* the sum of the lengths of the lists returned by scrapers 1..n that succeeded
SuccessLength(n) ==
    IF n = 0 THEN 0
    ELSE (IF scraped[n].kind = "ok" THEN Len(scraped[n].arts) ELSE 0) + SuccessLength(n - 1)

\* C22: the fetch does not deduplicate: whenever it returns, in either mode, its
\* output holds every article exactly as often as the lists of the scrapers
\* that succeeded hold it together, so its length is the sum of their lengths,
\* articles of one url from several scrapers included.
C22_NoDeduplication ==
    fpc = "returned" =>
        LET res == fetchResult[1] IN
        /\ \A a \in FetchArticles : Count(res, a) = SuccessCount(a, NumScrapers)
        /\ Len(res) = SuccessLength(NumScrapers)

\* two scrapers returned two articles each, three of them of the url "u1", one
\* article returned by both: the output holds all four
C22_Witness ==
    /\ asynchronous
    /\ fpc = "returned"
    /\ \A i \in Scrapers : Succeeded(i) /\ Len(scraped[i].arts) = 2
    /\ Len(fetchResult[1]) = 4
    /\ Cardinality({ k \in DOMAIN fetchResult[1] : fetchResult[1][k].url = "u1" }) = 3
    /\ Count(fetchResult[1], NewArticle("u1", "t1", None)) = 2

RECURSIVE InScraperOrder(_)
\* the lists of the scrapers 1..n that succeeded, concatenated in the order of
\* active_scrapers
InScraperOrder(n) ==
    IF n = 0 THEN <<>>
    ELSE InScraperOrder(n - 1) \o (IF scraped[n].kind = "ok" THEN scraped[n].arts ELSE <<>>)

\* the publish_date values of a list, and its sort keys (publish_date or "")
DateSeq(list) == [k \in DOMAIN list |-> list[k].publish_date]
KeySeq(list) == [k \in DOMAIN list |-> SortKey(list[k])]

\* C30 (as claimed): in concurrent mode the returned list has, for every
\* completion order, the same sequence of publish_date values: the one of the
\* lists sorted in the order of active_scrapers.
C30_SameDateSequence ==
    (asynchronous /\ fpc = "returned") =>
        DateSeq(fetchResult[1]) = DateSeq(SortedDesc(InScraperOrder(NumScrapers)))

\* C30 (amended): in concurrent mode nothing is sorted or returned while a
\* scraper's task is pending, and for every completion order the returned list
\* is the same multiset of articles with the same sequence of sort keys
\* (publish_date or ""): the same dates at the same positions, where an article
\* without a date holds None or "".
C30_SameAfterAllSettled ==
    asynchronous =>
        /\ (\E i \in Scrapers : scraped[i] = Pending) => (fetchResult = None /\ fpc = "running")
        /\ fpc = "returned" =>
              /\ \A a \in FetchArticles :
                    Count(fetchResult[1], a) = Count(InScraperOrder(NumScrapers), a)
              /\ KeySeq(fetchResult[1]) = KeySeq(SortedDesc(InScraperOrder(NumScrapers)))

\* the second scraper completed first, and the two dateless articles (None, "")
\* are returned in their order of arrival
C30_Witness ==
    /\ asynchronous
    /\ fpc = "returned"
    /\ \A i \in Scrapers : Succeeded(i) /\ Len(scraped[i].arts) = 2
    /\ articles = scraped[2].arts \o scraped[1].arts
    /\ articles # InScraperOrder(NumScrapers)
    /\ DateSeq(fetchResult[1]) # DateSeq(SortedDesc(InScraperOrder(NumScrapers)))

(***************************************************************************)
(* Further properties of backfill_articles                                 *)
(***************************************************************************)
\* the stored record(s) of a url
StoredRecords(st, url) == { st[i] : i \in Matching(st, url) }

\* C23: an article of the page whose enrichment failed (the adapter raised or
\* returned nothing) is at no moment in the batch that is passed to
\* upsert_many_articles, and the upsert of its page leaves its stored record as
\* it was.
C23_FailedLeftUnmodified ==
    /\ [](\A i \in FailedTasks : ~InUpdatedBatch(i))
    /\ [][(bpc = "upsert" /\ bpc' = "loop") =>
             \A i \in FailedTasks :
                StoredRecords(store', page[i].url) = StoredRecords(store, page[i].url)]_vars

\* a page of two articles has been upserted: the first was enriched and its
\* record now holds the enrichment, the enrichment of the second failed and its
\* record is the one the store started with
C23_Witness ==
    /\ bpc = "loop"
    /\ reads = 1
    /\ Len(page) = 2
    /\ task[1] = "ok"
    /\ task[2] \in {"raise", "none"}
    /\ store[1].sentiment = "positive"
    /\ store[2] = SeedStore(2)[2]

\* the articles of the current page whose future the loop has handled
Collected == { i \in DOMAIN task : task[i] \notin {"queued", "running"} }

\* C24: the three counters of a backfill never decrease, and they accumulate
\* over the pages: processed is the number of articles of all pages read so far
\* whose future has been handled (between pages: of all articles submitted so
\* far), every handled article is counted in exactly one of updated and failed,
\* and the counters of the page under way are added to those of the pages
\* before it.  These running totals are what line 174 returns.
C24_CountersAccumulate ==
    /\ [](/\ processed_total = Len(submitted) - Cardinality(DOMAIN task \ Collected)
          /\ updated_total + failed_total = processed_total
          /\ bpc \in {"pool", "upsert"} =>
                /\ processed_total = pageBase.processed + Cardinality(Collected)
                /\ updated_total >= pageBase.updated
                /\ failed_total >= pageBase.failed)
    /\ [][/\ processed_total' >= processed_total
          /\ updated_total' >= updated_total
          /\ failed_total' >= failed_total
          /\ bpc' = "returned" =>
                /\ processed_total' = processed_total
                /\ updated_total' = updated_total
                /\ failed_total' = failed_total]_vars

\* a backfill has returned after two pages of one article each: the first page
\* left the counters at (1, 1, 0) or (1, 0, 1), the second added one to
\* processed and one to the other of updated and failed
C24_Witness ==
    /\ bpc = "returned"
    /\ reads = 2
    /\ pageBase.processed = 1
    /\ processed_total = 2
    /\ updated_total = 1
    /\ failed_total = 1

\* the _id of the stored record of a url
IdentityOf(url) == store[CHOOSE i \in Matching(store, url) : TRUE]["_id"]

\* C25 (as claimed): once a non-empty page has been read, the cursor that the
\* next get_articles_batch call will get is the identity (_id) of the last
\* article of that page.
C25_CursorIsLastIdentity ==
    bpc \in {"pool", "upsert"} => last_id = Some(IdentityOf(page[Len(page)].url))

AtCap == limit_total # None /\ processed_total >= limit_total[1]
CountersKept ==
    /\ processed_total' = processed_total
    /\ updated_total' = updated_total
    /\ failed_total' = failed_total

\* C26: the loop of a backfill ends when a page read returns empty or when the
\* cap is reached.  No page is read once processed >= limit_total; at the top of
\* the loop with the cap reached the only step is the return of the counters as
\* they are; a read that finds no article returns them as well; the call
\* returns in no other way and takes no step after it.  With limit_total set, a
\* backfill whose enrichment calls all end does end: it returns, or it raises
\* out of an upsert.
C26_LoopEnds ==
    /\ [][/\ reads' # reads => ~AtCap
          /\ (bpc = "loop" /\ AtCap) => (bpc' = "returned" /\ CountersKept /\ reads' = reads)
          /\ (reads' # reads /\ GetArticlesBatch(store, batch_size, last_id) = <<>>)
                => (bpc' = "returned" /\ CountersKept)
          /\ (bpc' = "returned") =>
                (bpc = "loop" /\ (AtCap \/ GetArticlesBatch(store, batch_size, last_id) = <<>>))
          /\ bpc # "returned"]_vars
    /\ (limit_total # None) ~> (bpc \in {"returned", "raised"})

\* the cap of 2 was reached after two pages of one article, and the backfill
\* returned without a third read although the store holds an article
C26_Witness ==
    /\ bpc = "returned"
    /\ limit_total = Some(2)
    /\ batch_size = 1
    /\ reads = 2
    /\ processed_total = 2
    /\ store # <<>>

\* the backfill of an empty store returned after its first read
C26_WitnessEmptyPage ==
    /\ bpc = "returned"
    /\ limit_total = None
    /\ reads = 1
    /\ store = <<>>

(***************************************************************************)
(* ArticleService.get_articles_batch, called by any caller of the service  *)
(* with a limit and a cursor of its choice (ascending direction, no filter)*)
(***************************************************************************)
\* the cursors of the calls: none, an _id of the store, or an _id around them
BatchCursors == { None } \cup { Some(c) : c \in 0..(MaxStored + 1) }

InitBatch ==
    /\ IdleFetch
    /\ IdleMerge
    /\ IdleBackfill
    /\ IdleRun
    /\ IdleWriters
    /\ \E n \in 0..MaxStored : store = SeedStore(n)
    /\ clock = 1
    /\ last = NoCall
    /\ sameAsPrev = FALSE
    /\ gLimit = 0
    /\ gLastId = None
    /\ gResult = None
    /\ gCalls = 0

\* one call get_articles_batch(limit=limit, last_id=cursor)
GetBatchCall(limit, cursor) ==
    /\ gCalls < MaxReads
    /\ gCalls' = gCalls + 1
    /\ gLimit' = limit
    /\ gLastId' = cursor
    /\ gResult' = Some(GetArticlesBatch(store, limit, cursor))
    /\ UNCHANGED notBatch

NextBatch == \E limit \in 0..MaxPage, cursor \in BatchCursors : GetBatchCall(limit, cursor)

SpecBatch == InitBatch /\ [][NextBatch]_vars

\* the _ids a call with the cursor of the last call may return
Candidates == { store[i]["_id"] : i \in { j \in DOMAIN store :
                                            gLastId = None \/ store[j]["_id"] > gLastId[1] } }

\* the _ids of the articles the last call returned, in the order returned
ReturnedIds == [k \in DOMAIN gResult[1] |-> IdentityOf(gResult[1][k].url)]

\* the last call returned a page as C27 describes it
PageOfCursor ==
    LET ids == ReturnedIds
        n == Len(ids)
    IN /\ \A k \in DOMAIN ids : ids[k] \in Candidates
       /\ \A k, l \in DOMAIN ids : k < l => ids[k] < ids[l]
       /\ n <= gLimit
       /\ n = IF Cardinality(Candidates) > gLimit THEN gLimit ELSE Cardinality(Candidates)
       /\ \A c \in Candidates :
             (\A k \in DOMAIN ids : ids[k] # c) => \A k \in DOMAIN ids : ids[k] < c
       /\ \A k \in DOMAIN ids : gResult[1][k] = ToArticle(store[ids[k]])

\* C27 (as claimed): every call of get_articles_batch returns, in ascending
\* identity order, only items with an identity above the cursor (every item
\* when the cursor is absent), at most limit of them, and the limit smallest
\* ones when more exist.
C27_PageOfCursor == gResult # None => PageOfCursor

\* the same for the calls with a limit of at least 1
PositiveLimitPageOfCursor == (gResult # None /\ gLimit >= 1) => PageOfCursor

\* C28: enrichment does not retry.  While a page is processed summarize_article
\* is called for each of its articles at most once: not at all while its task is
\* queued, once from the moment a worker has taken it; when the enrichment stage
\* of the page is over it has been called exactly once for every article of the
\* page, whether the call succeeded, returned nothing or raised.
C28_NoRetry ==
    /\ DOMAIN calls = DOMAIN task
    /\ \A i \in DOMAIN task : calls[i] = IF task[i] = "queued" THEN 0 ELSE 1
    /\ bpc \in {"upsert", "raised"} => \A i \in DOMAIN page : calls[i] = 1

\* the enrichment stage of a page of two articles is over: the call raised for
\* the first and succeeded for the second, each was made once
C28_Witness ==
    /\ bpc = "upsert"
    /\ Len(page) = 2
    /\ task[1] = "raise"
    /\ task[2] = "ok"
    /\ calls = <<1, 1>>

\* the same with a call that returned nothing, in a second pass over the page
C28_WitnessEmpty ==
    /\ bpc = "upsert"
    /\ reads = 2
    /\ Len(page) = 2
    /\ task[1] = "none"
    /\ task[2] = "none"
    /\ calls = <<1, 1>>

\* the stored records that hold an enrichment
EnrichedRecords(st) == { i \in DOMAIN st : "sentiment" \in DOMAIN st[i] }

\* C29: when the upsert of a page fails, the records that the upserts of
\* earlier pages enriched stay in the store as those upserts left them: the
\* failing step changes none of them, and a backfill that raised after earlier
\* pages had enriched articles has left enriched records behind.
C29_NoRollback ==
    /\ [][bpc' = "raised" =>
             \A i \in EnrichedRecords(store) : i \in DOMAIN store' /\ store'[i] = store[i]]_vars
    /\ []((bpc = "raised" /\ pageBase.updated > 0) => EnrichedRecords(store) # {})

\* the upsert of the second page failed; the article the first page enriched
\* is still stored with its enrichment
C29_Witness ==
    /\ bpc = "raised"
    /\ reads = 2
    /\ pageBase.updated = 1
    /\ store[1].sentiment = "positive"

\* the LLM request that succeeds
OkOutcome == CHOOSE o \in BackfillOutcomes : o.kind = "ok"

\* C31: the workers of the enrichment stage write no shared state; the counters
\* and the updated batch are written by the loop that collects the finished
\* tasks.  So at every moment of the stage, for every order in which the calls
\* end, the counters are those of the page's start plus the number of tasks
\* collected so far (all, enriched, failed), and the updated batch holds the
\* enriched article of every task collected as enriched, once each: what the
\* stage leaves depends on how the calls ended, not on their order, and no
\* increment or append is lost.
C31_OrderIndependent ==
    bpc \in {"pool", "upsert"} =>
        /\ processed_total = pageBase.processed + Cardinality(Collected)
        /\ updated_total = pageBase.updated + Cardinality(EnrichedTasks)
        /\ failed_total = pageBase.failed + Cardinality(FailedTasks)
        /\ Len(updated_batch) = Cardinality(EnrichedTasks)
        /\ { updated_batch[j] : j \in DOMAIN updated_batch }
              = { ProcessOne(page[i], OkOutcome)[1] : i \in EnrichedTasks }

\* two calls were in flight together and the second article's call ended first:
\* the updated batch holds both, in the order of completion
C31_Witness ==
    /\ bpc = "upsert"
    /\ max_workers = 2
    /\ Len(page) = 2
    /\ Len(updated_batch) = 2
    /\ updated_batch[1].url = page[2].url
    /\ updated_batch[2].url = page[1].url
    /\ processed_total = pageBase.processed + 2

\* the page has been dealt with: the step after the enrichment stage is taken
PageOver == reads > 0 /\ page # <<>> /\ bpc \in {"loop", "returned", "raised"}

\* C32: for every page upsert_many_articles is called at most once, never
\* before the enrichment stage of the page is over, and with a batch that is not
\* empty and holds exactly the enriched articles of the page; once the page has
\* been dealt with it has been called once when at least one article of the
\* page was enriched, and not at all otherwise.
C32_UpsertOncePerPage ==
    /\ Len(upsert_calls) <= 1
    /\ bpc \in {"pool", "upsert"} => upsert_calls = <<>>
    /\ \A c \in DOMAIN upsert_calls :
          /\ upsert_calls[c] # <<>>
          /\ Len(upsert_calls[c]) = Cardinality(EnrichedTasks)
          /\ { upsert_calls[c][j] : j \in DOMAIN upsert_calls[c] }
                = { ProcessOne(page[i], OkOutcome)[1] : i \in EnrichedTasks }
    /\ PageOver => Len(upsert_calls) = IF EnrichedTasks # {} THEN 1 ELSE 0

\* a page of two articles, one enriched and one failed: one call, with the
\* enriched article alone
C32_Witness ==
    /\ bpc = "loop"
    /\ Len(page) = 2
    /\ task[1] \in {"raise", "none"}
    /\ task[2] = "ok"
    /\ upsert_calls = << <<ProcessOne(page[2], OkOutcome)[1]>> >>

\* a page on which every enrichment failed: no call
C32_WitnessNoCall ==
    /\ bpc = "loop"
    /\ reads = 1
    /\ Len(page) = 2
    /\ EnrichedTasks = {}
    /\ upsert_calls = <<>>

(***************************************************************************)
(* Further properties of run()                                             *)
(***************************************************************************)
\* the number of stored articles that the run with this identifier inserted
InsertedByRun(id) ==
    Cardinality({ i \in DOMAIN store :
                    "pipeline_run_id" \in DOMAIN store[i] /\ store[i]["pipeline_run_id"] = id })

\* C33: in every run record written, articles_inserted is the number of
\* articles that run inserted and is not above articles_fetched; in the record
\* of the run that has just returned, articles_fetched is the length of the
\* list the fetch returned and articles_inserted the inserted_count that
\* insert_many_articles reported, or 0 when nothing was fetched and the insert
\* was skipped.
C33_RecordCounts ==
    /\ \A i \in DOMAIN executions :
          /\ executions[i].articles_inserted = InsertedByRun(executions[i]["_id"])
          /\ executions[i].articles_inserted <= executions[i].articles_fetched
    /\ \A i \in RunRecords :
          /\ executions[i].articles_fetched = Len(Fetched)
          /\ IF Fetched = <<>>
             THEN /\ insert_result = EmptyDict
                  /\ executions[i].articles_inserted = 0
             ELSE /\ InsertCalled
                  /\ insert_result = last.result
                  /\ executions[i].articles_inserted = last.result.inserted_count

\* the second run fetched two articles and inserted one of them
C33_Witness ==
    /\ rpc = "done"
    /\ runs = 2
    /\ \E i \in RunRecords :
          /\ executions[i].articles_fetched = 2
          /\ executions[i].articles_inserted = 1
    /\ Len(executions) = 2

\* C34: every run record written holds one sources entry per active scraper,
\* in the order of active_scrapers, and the record of a run in which scrapers
\* failed holds the entries of those scrapers like the others.
C34_SourcesPerAdapter ==
    /\ \A i \in DOMAIN executions :
          /\ Len(executions[i].sources) = NumScrapers
          /\ \A k \in Scrapers : executions[i].sources[k].name = ScraperName(k)
    /\ \A i \in RunRecords :
          /\ DOMAIN scrape_metadata = Scrapers
          /\ \A k \in Scrapers :
                /\ scrape_metadata[k] \in {"ok", "error"}
                /\ \E e \in DOMAIN executions[i].sources :
                      executions[i].sources[e].name = ScraperName(k)

\* a run in concurrent mode whose first scraper failed and whose second one
\* returned an article has written its record, with both entries
C34_Witness ==
    /\ rpc = "done"
    /\ asynchronous
    /\ scrape_metadata = <<"error", "ok">>
    /\ Len(Fetched) = 1
    /\ \E i \in RunRecords :
          /\ Len(executions[i].sources) = 2
          /\ executions[i].sources[1].name = "yahoo"
          /\ executions[i].sources[2].name = "marketwatch"

(***************************************************************************)
(* Further properties of _process_one and summarize_article                *)
(***************************************************************************)
\* C35: a failing enrichment call is reported as a value.  When the LLM request
\* raises or its response holds nothing, summarize_article returns None; and
\* _process_one never raises: it returns None when summarize_article returned
\* None and when summarize_article raised, and an updated article only when the
\* request returned a summary.
C35_FailureIsAValue ==
    /\ mpc # "raised"
    /\ mpc = "done" =>
         /\ mOutcome[1].kind \in {"raise", "none"} => (mFields = None /\ mResult = None)
         /\ mOutcome[1].kind = "error" => mResult = None
         /\ mResult # None => (mOutcome[1].kind = "ok" /\ mFields # None)

\* summarize_article raised, and _process_one returned None
C35_Witness ==
    /\ mpc = "done"
    /\ mOutcome[1].kind = "error"
    /\ mResult = None

\* the LLM request raised, summarize_article returned None and so did _process_one
C35_WitnessRequest ==
    /\ mpc = "done"
    /\ mOutcome[1].kind = "raise"
    /\ mFields = None
    /\ mResult = None

\* C36: at the end of every page of a backfill (the enrichment stage is over,
\* whether the upsert is still to come, went through or raised) and in the
\* result that is returned, processed = updated + failed; over one page the two
\* counters updated and failed grow together by the number of articles of the
\* page.
C36_ProcessedIsUpdatedPlusFailed ==
    bpc \in {"upsert", "loop", "returned", "raised"} =>
        /\ processed_total = updated_total + failed_total
        /\ page # <<>> =>
              (updated_total - pageBase.updated) + (failed_total - pageBase.failed)
                 = Len(page)

\* a page of two articles is over: the adapter raised on the first, the second
\* was enriched, and processed is 2 = 1 + 1
C36_Witness ==
    /\ bpc = "loop"
    /\ reads = 1
    /\ Len(page) = 2
    /\ task[1] = "raise"
    /\ task[2] = "ok"
    /\ processed_total = 2
    /\ updated_total = 1
    /\ failed_total = 1

\* C37 (as claimed): when limit_total is set, the processed count that a
\* backfill returns is never above limit_total, whatever the page size.
C37_ProcessedWithinCap ==
    (bpc = "returned" /\ limit_total # None) => processed_total <= limit_total[1]

(***************************************************************************)
(* The two modes of fetch_latest_news_articles compared                    *)
(***************************************************************************)
\* what sequential mode returns when the scrapers return the lists they hold in
\* `scraped` and none fails: the lists extended in the order of active_scrapers,
\* then sorted
SequentialResult == SortedDesc(InScraperOrder(NumScrapers))

\* C38 (as claimed): when no scraper raises, a scraper that returns None is
\* skipped in both modes, so the call does not raise; and when every scraper
\* returns a list, the list returned in either mode is the multiset that
\* sequential mode returns for these lists, with the same sequence of
\* publish_date values.
C38_ModesAgree ==
    /\ (\A i \in Scrapers : scraped[i].kind # "raise") => fpc # "raised"
    /\ (fpc = "returned" /\ \A i \in Scrapers : scraped[i].kind = "ok") =>
          /\ \A a \in FetchArticles :
                Count(fetchResult[1], a) = Count(SequentialResult, a)
          /\ DateSeq(fetchResult[1]) = DateSeq(SequentialResult)

\* C39: every run record that run() writes has the status "success", whatever
\* the scrapers did and whatever was inserted: no record with the status
\* "failure" is ever stored; a run that ends without a "success" record is a
\* run that raised and wrote no record.
C39_StatusAlwaysSuccess ==
    /\ \A k \in DOMAIN executions : executions[k].status = "success"
    /\ rpc = "done" => /\ executions # <<>>
                       /\ executions[Len(executions)].pipeline_run_id = pipeline_run_id[1]
                       /\ executions[Len(executions)].status = "success"

\* a concurrent-mode run in which a scraper failed and nothing was inserted has
\* written its record, with the status "success"
C39_Witness ==
    /\ rpc = "done"
    /\ asynchronous
    /\ \E i \in DOMAIN scrape_metadata : scrape_metadata[i] = "error"
    /\ executions # <<>>
    /\ executions[Len(executions)].status = "success"
    /\ executions[Len(executions)].articles_inserted = 0

(***************************************************************************)
(* Articles of one url within a batch of insert_many_articles              *)
(***************************************************************************)
\* the first article of the batch that has the url
FirstOccurrence(batch, url) ==
    batch[CHOOSE k \in DOMAIN batch :
             /\ batch[k].url = url
             /\ \A j \in 1..(k - 1) : batch[j].url # url]

\* C40: when a batch of insert_many_articles holds several articles of one url,
\* the record written for a url that was not stored is the first occurrence of
\* the url in the batch: every record the call added carries the field values
\* of the first article of its url, also when a later article of the url has
\* other values and when the bulk write failed part-way; and a call that
\* returns has written the first occurrence of every new url of the batch.
C40_FirstOccurrenceWritten ==
    last.op = "insert_many" =>
        /\ \A i \in DOMAIN store \ DOMAIN last.before :
              /\ store[i].url \in BatchUrls(last.batch)
              /\ StoredSame(FirstOccurrence(last.batch, store[i].url), store[i])
        /\ ManyReturned =>
              \A url \in BatchUrls(last.batch) \ StoredUrls(last.before) :
                 \E i \in DOMAIN store \ DOMAIN last.before :
                    /\ store[i].url = url
                    /\ StoredSame(FirstOccurrence(last.batch, url), store[i])

\* a batch of two different articles of one new url was inserted: the stored
\* record is the first, not the second
C40_Witness ==
    /\ ManyReturned
    /\ Len(last.batch) = 2
    /\ last.batch[1].url = last.batch[2].url
    /\ last.batch[1] # last.batch[2]
    /\ last.batch[1].url \notin StoredUrls(last.before)
    /\ \E i \in DOMAIN store \ DOMAIN last.before :
          /\ StoredSame(last.batch[1], store[i])
          /\ ~StoredSame(last.batch[2], store[i])

====
